---------------------------- MODULE Spec2Model ----------------------------
(***************************************************************************)
(* Model of the PySONIC titration, range-check, lookup-table and           *)
(* command-line code.                                                      *)
(*                                                                         *)
(* Floating-point amplitudes of titrate are modelled on a uniform grid of  *)
(* representable values (one grid unit = one unit in the last place);      *)
(* the midpoint (a + b) / 2 of two grid values is exact when a + b is even *)
(* and is otherwise rounded to the neighbour that is even (IEEE            *)
(* round-half-to-even).  Rounding therefore only happens once a search     *)
(* has gone on refining below its tolerance.                               *)
(***************************************************************************)
EXTENDS Integers, Sequences, FiniteSets, TLC

\* ------------------------------------------------------------- bounds
MaxX == 9
MaxLo == 1
MaxTol == 3
MaxSpikes == 2
MaxCalls == 2
MaxArgs == 3
MaxArgVal == 2
MaxMethods == 2
MaxRadii == 2
MaxBound == 1
MaxLen == 2
NWorkers == 2
MantBits == 3
FracBits == 4
MaxAxis == 3
MaxTests == 2
MaxSamples == 6
MaxPeriod == 2
MaxPulses == 3
MaxOffset == 2

\* ------------------------------------------------------------- state
VARIABLES
    default_is_excited, \* the list object that is the default of titrate's is_excited
    is_excited,         \* the list bound to is_excited in the running call
    aliased,            \* TRUE when is_excited is the default list object
    call,               \* arguments of the running top-level call
    xbounds,            \* xbounds argument of the frame about to run
    last,               \* what the last executed frame evaluated
    depth,              \* number of frames executed by the running call
    pc,                 \* "idle" | "frame" | "returned"
    result,             \* value returned by the call
    ncalls,             \* number of top-level calls started
    ct,                 \* last run of a simulation function wrapped by checkTitrate
    cli,                \* last run of a command-line entry point
    iw,                 \* last call of isWithin
    lk,                 \* running or last lookup-table build
    lu,                 \* last call of a lookup loader
    dc,                 \* last run of the pulsed-protocol parser
    tr,                 \* last run of a test runner
    sp,                 \* last call of getStimPulses
    run                 \* running or last simulation run

tvars == <<default_is_excited, is_excited, aliased, call, xbounds, last,
           depth, pc, result, ncalls>>

vars == <<default_is_excited, is_excited, aliased, call, xbounds, last,
          depth, pc, result, ncalls, ct, cli, iw, lk, lu, dc, tr, sp, run>>

\* ------------------------------------------------------------- titrate
Abs(v) == IF v < 0 THEN -v ELSE v

\* Observables: nspikes_func(x) = above when x >= X, below otherwise; one of
\* the two levels is 0 (X = 0 gives the constant observables).
Observables ==
    {f \in [X : 0..MaxX, below : 0..MaxSpikes, above : 0..MaxSpikes] :
        f.below = 0 \/ f.above = 0}

nspikes_func(f, v) == IF v >= f.X THEN f.above ELSE f.below

\* x = (xbounds[0] + xbounds[1]) / 2 on the grid, round-half-to-even.
Midpoint(xb) ==
    LET s == xb[1] + xb[2]
        q == s \div 2
    IN  IF s % 2 = 0 THEN q
        ELSE IF q % 2 = 0 THEN q ELSE q + 1

NaN == [kind |-> "nan", val |-> 0]
NoResult == [kind |-> "none", val |-> 0]
RecursionError == [kind |-> "RecursionError", val |-> 0]
Value(v) == [kind |-> "value", val |-> v]

InList(b, l) == \E i \in 1..Len(l) : l[i] = b

\* (0 in is_excited and 1 in is_excited)
BothEncountered(l) == InList(FALSE, l) /\ InList(TRUE, l)

\* Variant of the convergence test that drops the "is_excited[-1]" condition.
Converged_AnyLast(xb, dx_thr, n, l) ==
    /\ (xb[2] - xb[1]) <= dx_thr
    /\ \/ n = 1
       \/ BothEncountered(l)

\* conv after the "interval small enough" block, for history l (already
\* holding the current outcome) and nspikes n.
Converged(xb, dx_thr, n, l) ==
    /\ (xb[2] - xb[1]) <= dx_thr
    /\ \/ n = 1
       \/ /\ BothEncountered(l)
          /\ l[Len(l)]

\* the early "return np.nan"
NonConvergent(xb, dx_thr, n, l) ==
    /\ (xb[2] - xb[1]) <= dx_thr
    /\ n # 1
    /\ ~BothEncountered(l)

\* xbounds = (xbounds[0], x) if is_excited[-1] else (x, xbounds[1])
Refine(xb, v, l) == IF l[Len(l)] THEN <<xb[1], v>> ELSE <<v, xb[2]>>

NoCall == [f |-> [X |-> 0, below |-> 0, above |-> 0], xbounds |-> <<0, 0>>,
           dx_thr |-> 0, start_len |-> 0]
NoEval == [xbounds |-> <<0, 0>>, x |-> 0, nspikes |-> 0]

TInit ==
    /\ default_is_excited = <<>>
    /\ is_excited = <<>>
    /\ aliased = FALSE
    /\ call = NoCall
    /\ xbounds = <<0, 0>>
    /\ last = NoEval
    /\ depth = 0
    /\ pc = "idle"
    /\ result = NoResult
    /\ ncalls = 0

\* Entry into titrate(nspikes_func, args, xbounds, dx_thr): is_excited is
\* bound to the default list object or to an explicit new empty list.
StartCall(f, lo, hi, tol, explicit) ==
    /\ aliased' = ~explicit
    /\ is_excited' = IF explicit THEN <<>> ELSE default_is_excited
    /\ call' = [f |-> f, xbounds |-> <<lo, hi>>, dx_thr |-> tol,
                start_len |-> IF explicit THEN 0 ELSE Len(default_is_excited)]
    /\ xbounds' = <<lo, hi>>
    /\ last' = NoEval
    /\ depth' = 0
    /\ pc' = "frame"
    /\ result' = NoResult
    /\ ncalls' = ncalls + 1
    /\ UNCHANGED default_is_excited

\* Callers pass intervals and tolerances far above the float resolution: the
\* midpoints of all intervals down to the first one not wider than dx_thr are
\* exact (a width w has an exact midpoint when w is even).
RECURSIVE HalvesExactly(_, _)
HalvesExactly(w, dx_thr) ==
    /\ w % 2 = 0
    /\ (w <= dx_thr \/ HalvesExactly(w \div 2, dx_thr))

\* A caller invokes titrate.
CallTitrate ==
    /\ pc = "idle"
    /\ ncalls < MaxCalls
    /\ \E f \in Observables, lo \in 0..MaxLo, hi \in 1..MaxX, tol \in 1..MaxTol,
          explicit \in BOOLEAN :
          /\ lo < hi
          /\ HalvesExactly(hi - lo, tol)
          /\ StartCall(f, lo, hi, tol, explicit)
    /\ UNCHANGED <<ct, cli, iw, lk, lu, dc, tr, sp, run>>

\* One frame of titrate: evaluate the midpoint, record the outcome, then
\* return or recurse on the refined interval.  A frame that recurses on the
\* interval it was given recurses forever: Python ends it with RecursionError.
TitrateFrame ==
    /\ pc = "frame"
    /\ LET v == Midpoint(xbounds)
           n == nspikes_func(call.f, v)
           l == Append(is_excited, n > 0)
       IN  /\ is_excited' = l
           /\ default_is_excited' = IF aliased THEN l ELSE default_is_excited
           /\ last' = [xbounds |-> xbounds, x |-> v, nspikes |-> n]
           /\ depth' = depth + 1
           /\ IF NonConvergent(xbounds, call.dx_thr, n, l)
              THEN /\ result' = NaN
                   /\ pc' = "returned"
                   /\ UNCHANGED xbounds
              ELSE IF Converged(xbounds, call.dx_thr, n, l)
              THEN /\ result' = Value(v)
                   /\ pc' = "returned"
                   /\ UNCHANGED xbounds
              ELSE IF Refine(xbounds, v, l) = xbounds
              THEN /\ result' = RecursionError
                   /\ pc' = "returned"
                   /\ UNCHANGED xbounds
              ELSE /\ xbounds' = Refine(xbounds, v, l)
                   /\ UNCHANGED <<result, pc>>
    /\ UNCHANGED <<aliased, call, ncalls>>
    /\ UNCHANGED <<ct, cli, iw, lk, lu, dc, tr, sp, run>>

\* The caller takes the returned value; only the default list object survives.
TakeResult ==
    /\ pc = "returned"
    /\ pc' = "idle"
    /\ is_excited' = <<>>
    /\ aliased' = FALSE
    /\ call' = NoCall
    /\ xbounds' = <<0, 0>>
    /\ last' = NoEval
    /\ depth' = 0
    /\ result' = NoResult
    /\ UNCHANGED <<default_is_excited, ncalls>>
    /\ UNCHANGED <<ct, cli, iw, lk, lu, dc, tr, sp, run>>

\* The value titrate returns when is_excited starts as the list l: the frames
\* of TitrateFrame, run to the end.
RECURSIVE titrate(_, _, _, _)
titrate(f, xb, dx_thr, is_exc) ==
    LET v == Midpoint(xb)
        n == nspikes_func(f, v)
        l == Append(is_exc, n > 0)
    IN  IF NonConvergent(xb, dx_thr, n, l) THEN NaN
        ELSE IF Converged(xb, dx_thr, n, l) THEN Value(v)
        ELSE IF Refine(xb, v, l) = xb THEN RecursionError
        ELSE titrate(f, Refine(xb, v, l), dx_thr, l)

TNext ==
    \/ CallTitrate
    \/ TitrateFrame
    \/ TakeResult

\* ------------------------------------------------------------- checkTitrate
\* Argument values are positive numbers; None is 0 and a NaN returned by
\* self.titrate is -1.
None == 0
nan == -1
ArgValues == {None} \cup (1..MaxArgVal)
Thresholds == 1..MaxArgVal

\* Positional argument tuples of a simulation function with up to MaxArgs
\* parameters after self.
ArgTuples == UNION {[1..n -> ArgValues] : n \in 1..MaxArgs}

\* Variant of the deletion that removes the argument after the titration
\* variable (the last one when there is none after it).
DelArg_Next(args, iarg) ==
    IF iarg < Len(args)
    THEN SubSeq(args, 1, iarg) \o SubSeq(args, iarg + 2, Len(args))
    ELSE SubSeq(args, 1, Len(args) - 1)

\* new_args = args.copy(); del new_args[iarg]   (iarg counted from 1 here)
DelArg(args, iarg) ==
    SubSeq(args, 1, iarg - 1) \o SubSeq(args, iarg + 1, Len(args))

\* args[iarg] = xthr
SetArg(args, iarg, xthr) == [args EXCEPT ![iarg] = xthr]

CtIdle == [wrapper |-> "none", detections |-> 0, args |-> <<>>, iarg |-> 0, kwargs |-> "none", calls |-> <<>>,
           xthr |-> None, out |-> "none", log |-> <<>>]

\* wrapper(self, *args, **kwargs) of checkTitrate(simfunc): iarg is the
\* position of self.titration_var in simfunc's signature, xthr the value
\* self.titrate returns if it is called.
checkTitrate(args, iarg, kwargs, xthr) ==
    IF iarg > Len(args)
    THEN [wrapper |-> "checkTitrate", detections |-> 0, args |-> args,
          iarg |-> iarg, kwargs |-> kwargs, calls |-> <<>>,
          xthr |-> None, out |-> "IndexError", log |-> <<>>]
    ELSE IF args[iarg] = None
    THEN LET new_args == DelArg(args, iarg)
             tcall == [fn |-> "titrate", args |-> new_args, kwargs |-> "none"]
         IN  IF xthr = nan
             THEN [wrapper |-> "checkTitrate", detections |-> 0, args |-> args,
                   iarg |-> iarg, kwargs |-> kwargs,
                   calls |-> <<tcall>>, xthr |-> xthr, out |-> "None",
                   log |-> <<"Could not find threshold">>]
             ELSE [wrapper |-> "checkTitrate", detections |-> 0, args |-> args,
                   iarg |-> iarg, kwargs |-> kwargs,
                   calls |-> <<tcall, [fn |-> "simfunc",
                                       args |-> SetArg(args, iarg, xthr),
                                       kwargs |-> kwargs]>>,
                   xthr |-> xthr, out |-> "simfunc", log |-> <<>>]
    ELSE [wrapper |-> "checkTitrate", detections |-> 0, args |-> args,
          iarg |-> iarg, kwargs |-> kwargs,
          calls |-> <<[fn |-> "simfunc", args |-> args, kwargs |-> kwargs]>>,
          xthr |-> None, out |-> "simfunc", log |-> <<>>]

CallWrapped ==
    /\ UNCHANGED <<tvars, cli, iw, lk, lu, dc, tr, sp, run>>
    /\ \E args \in ArgTuples, iarg \in 1..MaxArgs, kwargs \in {"none", "outputdir"},
       xthr \in Thresholds \cup {nan} :
        ct' = checkTitrate(args, iarg, kwargs, xthr)

\* Variant of logNSpikes without the test for a None output.
logNSpikes_NoNoneCheck(inner) ==
    IF inner.out = "IndexError" THEN [inner EXCEPT !.wrapper = "logNSpikes"]
    ELSE [inner EXCEPT !.wrapper = "logNSpikes",
                       !.detections = 1,
                       !.log = Append(@, "spikes detected")]

\* wrapper(self, *args, **kwargs) of logNSpikes(simfunc), for what simfunc
\* did: a None output is returned as it is, any other output has its spikes
\* counted by self.getNSpikes (detections) and logged.
logNSpikes(inner) ==
    IF inner.out \in {"IndexError", "None"}
    THEN [inner EXCEPT !.wrapper = "logNSpikes"]
    ELSE [inner EXCEPT !.wrapper = "logNSpikes",
                       !.detections = 1,
                       !.log = Append(@, "spikes detected")]

\* A simulation function wrapped by checkTitrate and then by logNSpikes.
CallLogged ==
    /\ UNCHANGED <<tvars, cli, iw, lk, lu, dc, tr, sp, run>>
    /\ \E args \in ArgTuples, iarg \in 1..MaxArgs, kwargs \in {"none", "outputdir"},
       xthr \in Thresholds \cup {nan} :
        ct' = logNSpikes(checkTitrate(args, iarg, kwargs, xthr))

CtNext ==
    \/ CallWrapped
    \/ CallLogged

\* ------------------------------------------------------------- command line
\* Method tokens a user may type.
Tokens == {"full", "hybrid", "sonic", "classic", "effective", "euler"}

CliIdle == [entry |-> "none", method |-> <<>>, status |-> "none",
            parsed |-> <<>>, queued |-> <<>>, amps |-> "none"]

\* AStimParser: self.allowed['method']
allowed_method == {"full", "hybrid", "sonic"}

\* Parser.parse: a missing option takes its default, wrapped in a list.
WithDefault(given) == IF given = <<>> THEN <<"sonic">> ELSE given

\* AStimParser.parseMethod
parseMethod(method) ==
    IF \E i \in 1..Len(method) : method[i] \notin allowed_method
    THEN "ValueError"
    ELSE "ok"

\* AStimParser().parse() on a command line giving -m the tokens `given`
\* (<<>> when the option is absent).
AStimParserParse ==
    /\ UNCHANGED <<tvars, ct, iw, lk, lu, dc, tr, sp, run>>
    /\ \E given \in UNION {[1..n -> Tokens] : n \in 0..MaxMethods} :
        LET method == WithDefault(given)
        IN  cli' = [entry |-> "AStimParser", method |-> given,
                    status |-> parseMethod(method),
                    parsed |-> IF parseMethod(method) = "ok" THEN method ELSE <<>>,
                    queued |-> <<>>, amps |-> "none"]

\* scripts/run_astim.py main(): -m is a free string (default 'sonic') handed to
\* runAStimBatch for every radius, which queues the simulations with it.
RunAstimMain ==
    /\ UNCHANGED <<tvars, ct, iw, lk, lu, dc, tr, sp, run>>
    /\ \E given \in UNION {[1..n -> Tokens] : n \in 0..1},
       outdir_ok \in BOOLEAN, amps_ok \in BOOLEAN, neuron_ok \in BOOLEAN,
       titrate_flag \in BOOLEAN, nradii \in 1..MaxRadii :
        LET method == IF given = <<>> THEN "sonic" ELSE given[1]
        IN  cli' = [entry |-> "run_astim", method |-> given,
                    status |-> IF ~outdir_ok \/ ~amps_ok THEN "quit"
                               ELSE IF ~neuron_ok THEN "error"
                               ELSE "ok",
                    parsed |-> <<method>>,
                    queued |-> IF outdir_ok /\ amps_ok /\ neuron_ok
                               THEN [a \in 1..nradii |-> method]
                               ELSE <<>>,
                    amps |-> IF ~outdir_ok \/ ~amps_ok THEN "none"
                             ELSE IF titrate_flag THEN "None" ELSE "parsed"]

\* sim/ASTIM_run.py main(): -m is a free string (default 'effective') handed
\* to runAStim.
ASTIMRunMain ==
    /\ UNCHANGED <<tvars, ct, iw, lk, lu, dc, tr, sp, run>>
    /\ \E given \in UNION {[1..n -> Tokens] : n \in 0..1}, neuron_ok \in BOOLEAN :
        LET int_method == IF given = <<>> THEN "effective" ELSE given[1]
        IN  cli' = [entry |-> "ASTIM_run", method |-> given,
                    status |-> IF neuron_ok THEN "ok" ELSE "exit",
                    parsed |-> <<int_method>>,
                    queued |-> IF neuron_ok THEN <<int_method>> ELSE <<>>,
                    amps |-> "parsed"]

CliNext ==
    \/ AStimParserParse
    \/ RunAstimMain
    \/ ASTIMRunMain

\* ------------------------------------------------------------- isWithin
\* A float value is u + p * 1e-12: u whole units and p units of 1e-12, with
\* |p| far below 1e12, so that values compare first by u, then by p.
Num(u, p) == [u |-> u, p |-> p]
Zero == Num(0, 0)
FLess(a, b) == a.u < b.u \/ (a.u = b.u /\ a.p < b.p)
FLeq(a, b) == ~FLess(b, a)
FSub(a, b) == Num(a.u - b.u, a.p - b.p)
FAbs(a) == IF FLess(a, Zero) THEN Num(-a.u, -a.p) ELSE a
FMax(a, b) == IF FLess(a, b) THEN b ELSE a

\* rel_tol * a for a >= 0, in units of 1e-12 rounded down:
\* 1e-9 * (u + p * 1e-12) = (1000 * u + p / 1e9) * 1e-12.
TimesRelTol(a) == Num(0, 1000 * a.u + (a.p \div 1000000000))

\* math.isclose(a, b, rel_tol=rel_tol), abs_tol = 0:
\* abs(a - b) <= rel_tol * max(abs(a), abs(b))
isclose(a, b) ==
    FLeq(FAbs(FSub(a, b)), TimesRelTol(FMax(FAbs(a), FAbs(b))))

IwIdle == [kind |-> "none", vals |-> <<>>, rets |-> <<>>, val |-> Zero,
           bounds |-> <<Zero, Zero>>, out |-> "none", ret |-> Zero, log |-> <<>>]

\* Variant of isWithin that warns but returns the marginal value unclamped.
isWithin_NoClamp(val, bounds) ==
    IF FLeq(bounds[1], val) /\ FLeq(val, bounds[2])
    THEN [kind |-> "float", vals |-> <<>>, rets |-> <<>>,
          val |-> val, bounds |-> bounds, out |-> "return", ret |-> val,
          log |-> <<>>]
    ELSE IF FLess(val, bounds[1]) /\ isclose(val, bounds[1])
    THEN [kind |-> "float", vals |-> <<>>, rets |-> <<>>,
          val |-> val, bounds |-> bounds, out |-> "return", ret |-> val,
          log |-> <<"Rounding to interval lower bound">>]
    ELSE IF FLess(bounds[2], val) /\ isclose(val, bounds[2])
    THEN [kind |-> "float", vals |-> <<>>, rets |-> <<>>,
          val |-> val, bounds |-> bounds, out |-> "return", ret |-> val,
          log |-> <<"Rounding to interval upper bound">>]
    ELSE [kind |-> "float", vals |-> <<>>, rets |-> <<>>,
          val |-> val, bounds |-> bounds, out |-> "ValueError", ret |-> Zero,
          log |-> <<>>]

\* isWithin(name, val, bounds) for a scalar val.
isWithin(val, bounds) ==
    IF FLeq(bounds[1], val) /\ FLeq(val, bounds[2])
    THEN [kind |-> "float", vals |-> <<>>, rets |-> <<>>,
          val |-> val, bounds |-> bounds, out |-> "return", ret |-> val,
          log |-> <<>>]
    ELSE IF FLess(val, bounds[1]) /\ isclose(val, bounds[1])
    THEN [kind |-> "float", vals |-> <<>>, rets |-> <<>>,
          val |-> val, bounds |-> bounds, out |-> "return", ret |-> bounds[1],
          log |-> <<"Rounding to interval lower bound">>]
    ELSE IF FLess(bounds[2], val) /\ isclose(val, bounds[2])
    THEN [kind |-> "float", vals |-> <<>>, rets |-> <<>>,
          val |-> val, bounds |-> bounds, out |-> "return", ret |-> bounds[2],
          log |-> <<"Rounding to interval upper bound">>]
    ELSE [kind |-> "float", vals |-> <<>>, rets |-> <<>>,
          val |-> val, bounds |-> bounds, out |-> "ValueError", ret |-> Zero,
          log |-> <<>>]

\* Distances from a whole value, in units of 1e-12.
Offsets ==
    LET pos == {1, 2, 999, 1000, 1001, 1999, 2000, 2001, 1000000000, 2000000000}
    IN  {0} \cup pos \cup {-q : q \in pos}

\* Axis ranges (ref.min(), ref.max()) and queries around them.
AxisBounds == {<<Num(a, 0), Num(b, 0)>> : a, b \in 0..MaxBound}

Queries == {Num(u, p) : u \in -1..(MaxBound + 1), p \in Offsets}

CallIsWithin ==
    /\ iw.out = "none"
    /\ UNCHANGED <<tvars, ct, cli, lk, lu, dc, tr, sp, run>>
    /\ \E val \in Queries, bounds \in AxisBounds :
        /\ FLeq(bounds[1], bounds[2])
        /\ iw' = isWithin(val, bounds)

IwNext == CallIsWithin

\* The logs of the element-wise calls on vals[1..n], in order.
RECURSIVE LogsUpTo(_, _, _)
LogsUpTo(vals, bounds, n) ==
    IF n = 0 THEN <<>>
    ELSE LogsUpTo(vals, bounds, n - 1) \o isWithin(vals[n], bounds).log

\* Variant of the list branch that leaves out the elements out of range.
isWithinList_SkipsInvalid(vals, bounds) ==
    LET ok == SelectSeq(vals, LAMBDA v : isWithin(v, bounds).out = "return")
    IN  [kind |-> "list", vals |-> vals,
         rets |-> [k \in 1..Len(ok) |-> isWithin(ok[k], bounds).ret],
         val |-> Zero, bounds |-> bounds, out |-> "return", ret |-> Zero,
         log |-> LogsUpTo(ok, bounds, Len(ok))]

\* isWithin(name, val, bounds) for a list, tuple or array val: the list of
\* the results of isWithin on its elements, computed in order; the first
\* element that raises ends the call.
isWithinList(vals, bounds) ==
    LET failing == {k \in 1..Len(vals) : isWithin(vals[k], bounds).out # "return"}
        first == CHOOSE k \in failing : \A j \in failing : k <= j
    IN  IF failing # {}
        THEN [kind |-> "list", vals |-> vals, rets |-> <<>>, val |-> Zero,
              bounds |-> bounds, out |-> "ValueError", ret |-> Zero,
              log |-> LogsUpTo(vals, bounds, first - 1)]
        ELSE [kind |-> "list", vals |-> vals,
              rets |-> [k \in 1..Len(vals) |-> isWithin(vals[k], bounds).ret],
              val |-> Zero, bounds |-> bounds, out |-> "return", ret |-> Zero,
              log |-> LogsUpTo(vals, bounds, Len(vals))]

\* Elements of the lists: whole values and values next to them.
ListOffsets == {-2001, -1, 0, 1, 2001}
ListQueries == {Num(u, p) : u \in -1..(MaxBound + 1), p \in ListOffsets}

CallIsWithinList ==
    /\ iw.out = "none"
    /\ UNCHANGED <<tvars, ct, cli, lk, lu, dc, tr, sp, run>>
    /\ \E bounds \in AxisBounds :
        /\ FLeq(bounds[1], bounds[2])
        /\ \E vals \in UNION {[1..n -> ListQueries] : n \in 0..MaxLen} :
              iw' = isWithinList(vals, bounds)

IwListNext ==
    \/ CallIsWithin
    \/ CallIsWithinList

\* ------------------------------------------------------------- n-d arrays
\* A numpy array is its shape and its elements by (1-based) index tuple, in
\* row-major (C) order as numpy's reshape and moveaxis lay them out.
RECURSIVE Prod(_)
Prod(shape) == IF shape = <<>> THEN 1 ELSE Head(shape) * Prod(Tail(shape))

RECURSIVE MaxOf(_)
MaxOf(shape) ==
    IF shape = <<>> THEN 0
    ELSE IF Head(shape) > MaxOf(Tail(shape)) THEN Head(shape)
    ELSE MaxOf(Tail(shape))

IndexSet(shape) ==
    {i \in [1..Len(shape) -> 1..MaxOf(shape)] :
        \A k \in 1..Len(shape) : i[k] <= shape[k]}

\* Position (from 0) of index tuple idx in the row-major order of shape.
RECURSIVE FlatIndexUpTo(_, _, _)
FlatIndexUpTo(idx, shape, k) ==
    IF k = 0 THEN 0
    ELSE FlatIndexUpTo(idx, shape, k - 1) * shape[k] + (idx[k] - 1)

FlatIndex(idx, shape) == FlatIndexUpTo(idx, shape, Len(shape))

\* Index tuple at position pos (from 0) of the row-major order of shape.
Unflatten(pos, shape) ==
    [k \in 1..Len(shape) |->
        ((pos \div Prod(SubSeq(shape, k + 1, Len(shape)))) % shape[k]) + 1]

\* Variant of reshape that fills the array in column-major order.
ReshapeColumnMajor(flat, dims) ==
    [shape |-> dims,
     data |-> [i \in IndexSet(dims) |->
                 flat[FlatIndex([k \in 1..Len(dims) |-> i[Len(dims) + 1 - k]],
                                [k \in 1..Len(dims) |-> dims[Len(dims) + 1 - k]])
                      + 1]]]

\* np.array(flat).reshape(dims), for Len(flat) = Prod(dims)
Reshape(flat, dims) ==
    [shape |-> dims,
     data |-> [i \in IndexSet(dims) |-> flat[FlatIndex(i, dims) + 1]]]

\* np.array([arr for i in range(n)])
Stack(arr, n) ==
    [shape |-> <<n>> \o arr.shape,
     data |-> [i \in IndexSet(<<n>> \o arr.shape) |-> arr.data[Tail(i)]]]

\* Variant of the tiling that leaves the new axis in front.
MoveAxisFirstToLast_Skipped(arr) == arr

\* np.moveaxis(arr, 0, -1)
MoveAxisFirstToLast(arr) ==
    LET n == Len(arr.shape)
        shape == Tail(arr.shape) \o <<arr.shape[1]>>
    IN  [shape |-> shape,
         data |-> [i \in IndexSet(shape) |->
                     arr.data[<<i[n]>> \o SubSeq(i, 1, n - 1)]]]

\* ------------------------------------------------------------- lookup build
\* Reference vectors are numpy arrays: their values (in model units) and
\* their dtype; the elements of a float64 array are instances of float, those
\* of an integer array are not.
FloatArray(vals) == [vals |-> vals, dtype |-> "float"]
IntArray(vals) == [vals |-> vals, dtype |-> "int"]

\* Coverage fraction 1. (the whole membrane), in percent.
FsFull == 100

\* min(values)
RECURSIVE MinOf(_)
MinOf(vals) ==
    IF Len(vals) = 1 THEN vals[1]
    ELSE IF vals[1] < MinOf(Tail(vals)) THEN vals[1] ELSE MinOf(Tail(vals))

Refs(aref, fref, Aref, Qref, fsref) ==
    [a |-> aref, f |-> fref, A |-> Aref, Q |-> Qref, fs |-> fsref]

RefKeys == <<"a", "f", "A", "Q", "fs">>

\* Body of "for key, values in refs.items()" for one reference vector.
CheckVector(key, values) ==
    IF Len(values.vals) > 0 /\ values.dtype # "float" THEN "TypeError"
    ELSE IF Len(values.vals) = 0 THEN "ValueError"
    ELSE IF key \in {"a", "f"} /\ MinOf(values.vals) <= 0 THEN "ValueError"
    ELSE IF key \in {"A", "fs"} /\ MinOf(values.vals) < 0 THEN "ValueError"
    ELSE "ok"

\* The checks that computeAStimLookup makes before it builds the queue: the
\* exception it raises, or "ok".
RECURSIVE CheckVectorsFrom(_, _)
CheckVectorsFrom(refs, k) ==
    IF k > Len(RefKeys) THEN "ok"
    ELSE IF CheckVector(RefKeys[k], refs[RefKeys[k]]) # "ok"
    THEN CheckVector(RefKeys[k], refs[RefKeys[k]])
    ELSE CheckVectorsFrom(refs, k + 1)

\* Variant of ValidateRefs without the test on the coverage fractions.
ValidateRefs_AnyCoverage(refs) ==
    IF Len(refs.fs.vals) = 0 THEN "IndexError"
    ELSE CheckVectorsFrom(refs, 1)

ValidateRefs(refs) ==
    IF Len(refs.fs.vals) = 0 THEN "IndexError"
    ELSE IF /\ (Len(refs.fs.vals) > 1 \/ refs.fs.vals[1] # FsFull)
            /\ (Len(refs.a.vals) # 1 \/ Len(refs.f.vals) # 1)
    THEN "AssertionError"
    ELSE CheckVectorsFrom(refs, 1)

\* dims = np.array([x.size for x in refs.values()])
Dims(refs) == [k \in 1..Len(RefKeys) |-> Len(refs[RefKeys[k]].vals)]

\* The checks of computeAStimLookups (scripts/run_lookups_fs.py) on its
\* coverage fractions and amplitudes.
CheckFsVector(key, values) ==
    IF Len(values.vals) > 0 /\ values.dtype # "float" THEN "TypeError"
    ELSE IF Len(values.vals) = 0 THEN "ValueError"
    ELSE IF key = "fs" /\ MinOf(values.vals) <= 0 THEN "ValueError"
    ELSE IF key = "A" /\ MinOf(values.vals) < 0 THEN "ValueError"
    ELSE "ok"

ValidateFsInputs(refs) ==
    IF CheckFsVector("fs", refs.fs) # "ok" THEN CheckFsVector("fs", refs.fs)
    ELSE CheckFsVector("A", refs.A)

\* Effective variables of one combination: every coefficient is a function
\* of the combination, recorded here as the combination itself.
EffVars(a, f, A, Q, fs) == [V |-> <<a, f, A, Q, fs>>, ng |-> <<fs, Q, A, f, a>>]

NoOutput == [state |-> "none", effvars |-> <<>>, tcomp |-> <<>>]
Failure == [state |-> "failed", effvars |-> <<>>, tcomp |-> <<>>]

\* Batch.createQueue(fref, Aref, Qref), each item extended with the coverage
\* vector, and createQueue(([Fdrive], Aref, Qref, fsref)): all combinations, the
\* first vector varying slowest.
Queue(entry, refs) ==
    IF entry = "run_lookups"
    THEN LET shape == <<Len(refs.f.vals), Len(refs.A.vals), Len(refs.Q.vals)>>
         IN  [k \in 1..Prod(shape) |->
                LET i == Unflatten(k - 1, shape)
                IN  <<refs.f.vals[i[1]], refs.A.vals[i[2]], refs.Q.vals[i[3]]>>]
    ELSE LET shape == <<Len(refs.f.vals), Len(refs.A.vals), Len(refs.Q.vals),
                        Len(refs.fs.vals)>>
         IN  [k \in 1..Prod(shape) |->
                LET i == Unflatten(k - 1, shape)
                IN  <<refs.f.vals[i[1]], refs.A.vals[i[2]], refs.Q.vals[i[3]],
                      refs.fs.vals[i[4]]>>]

\* nbls.computeEffVars on one queue item, for the sonophore of radius a: the
\* effective variables (one per coverage fraction) and the computation time,
\* named by what was computed.
computeEffVars(entry, refs, a, item) ==
    IF entry = "run_lookups"
    THEN [state |-> "done",
          effvars |-> [j \in 1..Len(refs.fs.vals) |->
                         EffVars(a, item[1], item[2], item[3], refs.fs.vals[j])],
          tcomp |-> <<a, item[1], item[2], item[3]>>]
    ELSE [state |-> "done",
          effvars |-> <<EffVars(a, item[1], item[2], item[3], item[4])>>,
          tcomp |-> <<a, item[1], item[2], item[3], item[4]>>]

RECURSIVE Chain(_)
\* itertools.chain.from_iterable
Chain(lists) == IF lists = <<>> THEN <<>> ELSE Head(lists) \o Chain(Tail(lists))

EmptyArray == [shape |-> <<>>, data |-> <<>>]
NoTables == [V |-> EmptyArray, ng |-> EmptyArray, tcomp |-> EmptyArray]

\* computeAStimLookup from "Split comp times and effvars from outputs" on.
LookupTables(outputs, dims) ==
    LET effvars == Chain([i \in 1..Len(outputs) |-> outputs[i].effvars])
        tcomps == [i \in 1..Len(outputs) |-> outputs[i].tcomp]
        nout == Len(effvars)
    IN  [V |-> Reshape([i \in 1..nout |-> effvars[i].V], dims),
         ng |-> Reshape([i \in 1..nout |-> effvars[i].ng], dims),
         tcomp |-> MoveAxisFirstToLast(
                       Stack(Reshape(tcomps, SubSeq(dims, 1, Len(dims) - 1)),
                             dims[Len(dims)]))]

\* computeAStimLookups from "Split comp times and lookups" on.
LookupTablesFs(outputs, nA, nQ, nfs) ==
    [V |-> Reshape([i \in 1..Len(outputs) |-> outputs[i].effvars[1].V],
                   <<nA, nQ, nfs>>),
     ng |-> Reshape([i \in 1..Len(outputs) |-> outputs[i].effvars[1].ng],
                    <<nA, nQ, nfs>>),
     tcomp |-> Reshape([i \in 1..Len(outputs) |-> outputs[i].tcomp],
                       <<nA, nQ, nfs>>)]

NoRefs == Refs(FloatArray(<<>>), FloatArray(<<>>), FloatArray(<<>>),
               FloatArray(<<>>), FloatArray(<<>>))

LkIdle == [entry |-> "none", pc |-> "idle", refs |-> NoRefs, mpi |-> FALSE,
           failing |-> {}, queue |-> <<>>, ia |-> 0, next |-> 0,
           inflight |-> {}, outs |-> <<>>, outputs |-> <<>>, out |-> "none",
           tables |-> NoTables, file |-> "none"]

\* A build up to the start of its batch: the exception of the validation, or
\* the queue and an empty list of outputs.  `failing` is the set of amplitudes
\* at which the effective-variables computation fails.
StartBuild(entry, refs, mpi, failing, checked) ==
    IF checked # "ok"
    THEN [LkIdle EXCEPT !.entry = entry, !.pc = "done", !.refs = refs,
                        !.out = checked]
    ELSE [LkIdle EXCEPT !.entry = entry, !.pc = "batch", !.refs = refs,
                        !.mpi = mpi, !.failing = failing,
                        !.queue = Queue(entry, refs), !.ia = 1, !.next = 1,
                        !.outs = [k \in 1..Len(Queue(entry, refs)) |-> NoOutput]]

AscendingSeqs(Vals) ==
    {v \in UNION {[1..n -> Vals] : n \in 0..MaxLen} :
        \A i \in 1..(Len(v) - 1) : v[i] < v[i + 1]}

RadiusVals == {0, 1, 2}
FreqVals == {0, 1, 2}
AmpVals == {-1, 0, 1}
ChargeVals == {-1, 0, 1}
FsVals == {-50, 0, FsFull}

\* The array of values vals, of integer dtype when key is the axis int_axis.
AsArray(key, vals, int_axis) ==
    IF key = int_axis THEN IntArray(vals) ELSE FloatArray(vals)

Range(vals) == {vals[i] : i \in 1..Len(vals)}

\* computeAStimLookup(pneuron, aref, fref, Aref, Qref, fsref, mpi): the
\* validation and the creation of the queue.
CallComputeAStimLookup ==
    /\ lk.pc = "idle"
    /\ \E aref \in AscendingSeqs(RadiusVals), fref \in AscendingSeqs(FreqVals),
          Aref \in AscendingSeqs(AmpVals), Qref \in AscendingSeqs(ChargeVals),
          fsref \in AscendingSeqs(FsVals),
          int_axis \in {"none", "a", "f", "A", "Q", "fs"} :
        LET refs == Refs(AsArray("a", aref, int_axis), AsArray("f", fref, int_axis),
                         AsArray("A", Aref, int_axis), AsArray("Q", Qref, int_axis),
                         AsArray("fs", fsref, int_axis))
        IN  IF ValidateRefs(refs) # "ok"
            THEN lk' = StartBuild("run_lookups", refs, FALSE, {}, ValidateRefs(refs))
            ELSE \E mpi \in BOOLEAN, failing \in SUBSET Range(Aref) :
                    lk' = StartBuild("run_lookups", refs, mpi, failing, "ok")
    /\ UNCHANGED <<tvars, ct, cli, iw, lu, dc, tr, sp, run>>

\* computeAStimLookups(neuron, a, Fdrive, Aref, Qref, fsref, mpi) of
\* scripts/run_lookups_fs.py: the validation and the creation of the queue.
CallComputeAStimLookups ==
    /\ lk.pc = "idle"
    /\ \E a \in RadiusVals, Fdrive \in FreqVals,
          Aref \in AscendingSeqs(AmpVals), Qref \in AscendingSeqs(ChargeVals),
          fsref \in AscendingSeqs(FsVals), int_axis \in {"none", "A", "fs"} :
        LET refs == Refs(FloatArray(<<a>>), FloatArray(<<Fdrive>>),
                         AsArray("A", Aref, int_axis), FloatArray(Qref),
                         AsArray("fs", fsref, int_axis))
        IN  /\ Qref # <<>>
            /\ IF ValidateFsInputs(refs) # "ok"
               THEN lk' = StartBuild("run_lookups_fs", refs, FALSE, {},
                                     ValidateFsInputs(refs))
               ELSE \E mpi \in BOOLEAN, failing \in SUBSET Range(Aref) :
                       lk' = StartBuild("run_lookups_fs", refs, mpi, failing, "ok")
    /\ UNCHANGED <<tvars, ct, cli, iw, lu, dc, tr, sp, run>>

\* main() of scripts/run_lookups_fs.py: the coverage vector is
\* np.linspace(0, 100, 101) * 1e-2, reduced to its bounds with --test; the
\* charges span the neuron's charge range.
RunLookupsFsMain ==
    /\ lk.pc = "idle"
    /\ \E radius \in RadiusVals, freq \in FreqVals,
          amp \in AscendingSeqs(AmpVals) \ {<<>>},
          test \in BOOLEAN, neuron_ok \in BOOLEAN, overwrite \in BOOLEAN,
          mpi \in BOOLEAN :
        LET fs == IF test THEN <<0, FsFull>> ELSE <<0, 50, FsFull>>
            amps == IF test THEN <<amp[1], amp[Len(amp)]>> ELSE amp
            charges == IF test THEN <<-1, 0, 1>> ELSE <<-1, 0>>
            refs == Refs(FloatArray(<<radius>>), FloatArray(<<freq>>),
                         FloatArray(amps), FloatArray(charges), FloatArray(fs))
        IN  IF ~neuron_ok
            THEN lk' = [LkIdle EXCEPT !.entry = "run_lookups_fs", !.pc = "done",
                                      !.out = "unknown neuron"]
            ELSE IF ~overwrite
            THEN lk' = [LkIdle EXCEPT !.entry = "run_lookups_fs", !.pc = "done",
                                      !.out = "canceled"]
            ELSE lk' = StartBuild("run_lookups_fs", refs, mpi, {},
                                  ValidateFsInputs(refs))
    /\ UNCHANGED <<tvars, ct, cli, iw, lu, dc, tr, sp, run>>

\* inputs[i] = np.array([x.min(), x.max()]) of a test run, for a vector in
\* ascending order.
TestBounds(x) == IF Len(x) > 1 THEN <<x[1], x[Len(x)]>> ELSE x

\* main() of scripts/run_lookups.py: the lookup file is named after the neuron
\* alone when the coverage is the single value 1., and after the first radius
\* and the first frequency as well otherwise; with --test every vector is
\* reduced to its bounds.  The charges span the neuron's charge range.
RunLookupsMain ==
    /\ lk.pc = "idle"
    /\ \E radius \in AscendingSeqs(RadiusVals) \ {<<>>},
          freq \in AscendingSeqs(FreqVals) \ {<<>>},
          amp \in AscendingSeqs(AmpVals) \ {<<>>},
          fs \in AscendingSeqs(FsVals) \ {<<>>},
          test \in BOOLEAN, overwrite \in BOOLEAN, mpi \in BOOLEAN :
        LET file == IF Len(fs) = 1 /\ fs[1] = FsFull THEN "neuron" ELSE "neuron_a_f_fs"
            charges == <<-1, 0>>
            refs == IF test
                    THEN Refs(FloatArray(TestBounds(radius)), FloatArray(TestBounds(freq)),
                              FloatArray(TestBounds(amp)), FloatArray(TestBounds(charges)),
                              FloatArray(TestBounds(fs)))
                    ELSE Refs(FloatArray(radius), FloatArray(freq), FloatArray(amp),
                              FloatArray(charges), FloatArray(fs))
        IN  IF ~overwrite
            THEN lk' = [LkIdle EXCEPT !.entry = "run_lookups", !.pc = "done",
                                      !.out = "canceled", !.file = file]
            ELSE lk' = [StartBuild("run_lookups", refs, mpi, {}, ValidateRefs(refs))
                            EXCEPT !.file = file]
    /\ UNCHANGED <<tvars, ct, cli, iw, lu, dc, tr, sp, run>>

\* The batch (Batch and runBatch): a worker takes the next item of the queue;
\* one item at a time without mpi, up to NWorkers at a time with it.
StartTask ==
    /\ lk.pc = "batch"
    /\ lk.next <= Len(lk.queue)
    /\ Cardinality(lk.inflight) < (IF lk.mpi THEN NWorkers ELSE 1)
    /\ lk' = [lk EXCEPT !.inflight = @ \cup {lk.next}, !.next = @ + 1]
    /\ UNCHANGED <<tvars, ct, cli, iw, lu, dc, tr, sp, run>>

\* Any running evaluation completes; its output, or the failure reported for
\* its combination, is stored at the position of its item in the queue.  The
\* outputs of a finished batch are appended to those of the previous radii.
CompleteTask ==
    /\ lk.pc = "batch"
    /\ \E i \in lk.inflight :
        LET a == lk.refs.a.vals[lk.ia]
            output == IF lk.queue[i][2] \in lk.failing THEN Failure
                      ELSE computeEffVars(lk.entry, lk.refs, a, lk.queue[i])
            outs == [lk.outs EXCEPT ![i] = output]
            finished == lk.next > Len(lk.queue) /\ lk.inflight = {i}
        IN  lk' = IF ~finished
                  THEN [lk EXCEPT !.inflight = @ \ {i}, !.outs = outs]
                  ELSE IF lk.ia < Len(lk.refs.a.vals)
                  THEN [lk EXCEPT !.inflight = {}, !.outputs = @ \o outs,
                                  !.ia = @ + 1, !.next = 1,
                                  !.outs = [k \in 1..Len(lk.queue) |-> NoOutput]]
                  ELSE [lk EXCEPT !.inflight = {}, !.outputs = @ \o outs,
                                  !.outs = <<>>, !.pc = "split"]
    /\ UNCHANGED <<tvars, ct, cli, iw, lu, dc, tr, sp, run>>

\* The rest of the build: the outputs are split and reshaped into the tables.
\* A reported failure is no (effvars, tcomp) pair and cannot be split.
ReturnLookup ==
    /\ lk.pc = "split"
    /\ LET failed == \E i \in 1..Len(lk.outputs) : lk.outputs[i].state = "failed"
           dims == Dims(lk.refs)
       IN  IF failed
           THEN \E error \in (IF lk.entry = "run_lookups" THEN {"TypeError"}
                              ELSE {"ValueError", "AttributeError"}) :
                   lk' = [lk EXCEPT !.pc = "done", !.out = error]
           ELSE IF lk.entry = "run_lookups"
           THEN lk' = [lk EXCEPT !.pc = "done", !.out = "Lookup",
                                 !.tables = LookupTables(lk.outputs, dims)]
           ELSE lk' = [lk EXCEPT !.pc = "done", !.out = "df",
                                 !.tables = LookupTablesFs(lk.outputs, dims[3],
                                                           dims[4], dims[5])]
    /\ UNCHANGED <<tvars, ct, cli, iw, lu, dc, tr, sp, run>>

LkNext ==
    \/ CallComputeAStimLookup
    \/ CallComputeAStimLookups
    \/ RunLookupsFsMain
    \/ RunLookupsMain
    \/ StartTask
    \/ CompleteTask
    \/ ReturnLookup

\* ------------------------------------------------------------- floats of the tables
\* The values of the lookup tables, their axes and the queries are binary
\* floating-point numbers with MantBits significant bits: integers counted in
\* units of 2^-FracBits, of which the representable ones are m * 2^j with
\* m < 2^MantBits.  Every operation rounds its exact result to the nearest
\* representable value, ties to the even significand.
RECURSIVE Pow2(_)
Pow2(n) == IF n = 0 THEN 1 ELSE 2 * Pow2(n - 1)

Unit == Pow2(FracBits)

\* n / d rounded to the nearest integer, ties to even (n >= 0, d > 0).
RoundHalfEven(n, d) ==
    LET q == n \div d
        r == n % d
    IN  IF 2 * r < d THEN q
        ELSE IF 2 * r > d THEN q + 1
        ELSE IF q % 2 = 0 THEN q ELSE q + 1

\* Smallest j >= 0 with n / d < 2^(MantBits + j): the exponent of n / d.
RECURSIVE Exponent(_, _, _)
Exponent(n, d, j) ==
    IF n < d * Pow2(MantBits + j) THEN j ELSE Exponent(n, d, j + 1)

\* The float nearest to n / d (d > 0).
RoundTo(n, d) ==
    LET m == IF n < 0 THEN -n ELSE n
        j == Exponent(m, d, 0)
        r == RoundHalfEven(m, d * Pow2(j)) * Pow2(j)
    IN  IF n < 0 THEN -r ELSE r

FlAdd(x, y) == RoundTo(x + y, 1)
FlSub(x, y) == RoundTo(x - y, 1)
FlMul(x, y) == RoundTo(x * y, Unit)
FlDiv(x, y) == IF y < 0 THEN RoundTo(-(x * Unit), -y) ELSE RoundTo(x * Unit, y)

\* The float of the whole number n.
Fl(n) == n * Unit

\* ------------------------------------------------------------- interpolation
\* scipy's interp1d(x, y, axis)(x_new), linear, on an n-d array: the two grid
\* points around x_new are found by searchsorted, with the upper index clipped
\* to [1, len(x) - 1], and the value is slope * (x_new - x_lo) + y_lo.
SearchSorted(ref, val) == Cardinality({k \in 1..Len(ref) : ref[k] < val})

Clip(x, lo, hi) == IF x < lo THEN lo ELSE IF x > hi THEN hi ELSE x

\* The index tuple i with k inserted at the (0-based) position axis.
InsertAt(i, axis, k) ==
    [n \in 1..(Len(i) + 1) |->
        IF n < axis + 1 THEN i[n] ELSE IF n = axis + 1 THEN k ELSE i[n - 1]]

\* The shape without its (0-based) position axis.
RemoveAt(shape, axis) ==
    [n \in 1..(Len(shape) - 1) |-> IF n < axis + 1 THEN shape[n] ELSE shape[n + 1]]

Linear(x_lo, x_hi, y_lo, y_hi, x_new) ==
    LET slope == FlDiv(FlSub(y_hi, y_lo), FlSub(x_hi, x_lo))
    IN  FlAdd(FlMul(slope, FlSub(x_new, x_lo)), y_lo)

\* The slice of y at x_new along axis.
InterpAt(ref, y, axis, x_new) ==
    LET hi == Clip(SearchSorted(ref, x_new), 1, Len(ref) - 1)
        lo == hi - 1
        shape == RemoveAt(y.shape, axis)
    IN  [shape |-> shape,
         data |-> [i \in IndexSet(shape) |->
                      Linear(ref[lo + 1], ref[hi + 1],
                             y.data[InsertAt(i, axis, lo + 1)],
                             y.data[InsertAt(i, axis, hi + 1)], x_new)]]

InterpError == [out |-> "ValueError", y |-> EmptyArray]

\* interp1d(ref, y, axis)(x_new) for a scalar x_new: the constructor refuses
\* a reference vector whose length is not that of the axis, the call a value
\* out of the reference range.
interp1d(ref, y, axis, x_new) ==
    IF Len(ref) # y.shape[axis + 1] THEN InterpError
    ELSE IF x_new < ref[1] \/ x_new > ref[Len(ref)] THEN InterpError
    ELSE [out |-> "return", y |-> InterpAt(ref, y, axis, x_new)]

\* interp1d(ref, y, axis=0)(vals) for a list of values: the slices at the
\* values, stacked along the axis.
interp1dList(ref, y, vals) ==
    IF Len(ref) # y.shape[1] THEN InterpError
    ELSE IF \E k \in 1..Len(vals) : vals[k] < ref[1] \/ vals[k] > ref[Len(ref)]
    THEN InterpError
    ELSE LET shape == <<Len(vals)>> \o Tail(y.shape)
         IN  [out |-> "return",
              y |-> [shape |-> shape,
                     data |-> [i \in IndexSet(shape) |->
                                  InterpAt(ref, y, 0, vals[i[1]]).data[Tail(i)]]]]

\* ------------------------------------------------------------- lookup files
\* A lookup file holds the reference vectors under 'input' and one array per
\* coefficient under 'lookup'.  Nothing ties the two together in the file: the
\* arrays may have another shape than the lengths of the vectors.
TableWeight == Pow2(MantBits) - 1

RECURSIVE SumIdx(_)
SumIdx(i) == IF i = <<>> THEN 0 ELSE (Head(i) - 1) + SumIdx(Tail(i))

TableArray(shape, off) ==
    [shape |-> shape,
     data |-> [i \in IndexSet(shape) |->
                  Fl((TableWeight * SumIdx(i) + off) % Pow2(MantBits))]]

RECURSIVE Power(_, _)
Power(b, n) == IF n = 0 THEN 1 ELSE b * Power(b, n - 1)

\* The ascending vector 1, step, step^2, ... of n values, in units.
Axis(step, n) == [k \in 1..n |-> Power(step, k - 1)]

AxisLens == 2..MaxAxis

\* The shape of the arrays: the lengths of the vectors, axis bad (if any)
\* one longer.
FileShape(lens, bad) == [k \in 1..Len(lens) |-> IF k = bad THEN lens[k] + 1 ELSE lens[k]]

NoInput == [a |-> <<>>, f |-> <<>>, A |-> <<>>, Q |-> <<>>, fs |-> <<>>]
NoLookups == [V |-> EmptyArray, ng |-> EmptyArray]
NoFile == [exists |-> FALSE, input |-> NoInput, lookup |-> NoLookups]

File4D(aref, Fref, Aref, Qref, bad) ==
    LET shape == FileShape(<<Len(aref), Len(Fref), Len(Aref), Len(Qref)>>, bad)
    IN  [exists |-> TRUE,
         input |-> [a |-> aref, f |-> Fref, A |-> Aref, Q |-> Qref, fs |-> <<>>],
         lookup |-> [V |-> TableArray(shape, 0), ng |-> TableArray(shape, 1)]]

FileFs(Aref, Qref, fsref, bad) ==
    LET shape == FileShape(<<Len(Aref), Len(Qref), Len(fsref)>>, bad)
    IN  [exists |-> TRUE,
         input |-> [a |-> <<>>, f |-> <<>>, A |-> Aref, Q |-> Qref, fs |-> fsref],
         lookup |-> [V |-> TableArray(shape, 0), ng |-> TableArray(shape, 1)]]

Files4D ==
    {NoFile} \cup
    {File4D(Axis(step, na), Axis(2, nf), Axis(2, nA), Axis(2, nQ), bad) :
        step \in {2, 4}, na \in AxisLens, nf \in AxisLens, nA \in AxisLens,
        nQ \in AxisLens, bad \in {0, 1, 4}}

FilesFs ==
    {NoFile} \cup
    {FileFs(Axis(2, nA), Axis(2, nQ), Axis(step, nfs), bad) :
        step \in {2, 4}, nA \in AxisLens, nQ \in AxisLens, nfs \in AxisLens,
        bad \in {0, 2, 3}}

\* The amplitudes of main() of scripts/run_lookups.py: 0 inserted in front
\* of an ascending vector of positive amplitudes.
AxisFromZero(step, n) == <<0>> \o Axis(step, n - 1)

\* The files getLookupsOff is run on: those above, and well-formed files whose
\* amplitudes start at 0.
FilesOff ==
    Files4D \cup
    {File4D(Axis(2, na), Axis(2, nf), AxisFromZero(2, nA), Axis(2, nQ), 0) :
        na \in AxisLens, nf \in AxisLens, nA \in AxisLens, nQ \in AxisLens}

LookupKeys == {"V", "ng"}

\* ------------------------------------------------------------- loaders
\* An argument of a loader: None, a float or a list of floats.
NoneArg == [kind |-> "None", val |-> 0, vals |-> <<>>]
FloatArg(v) == [kind |-> "float", val |-> v, vals |-> <<>>]
ListArg(vs) == [kind |-> "list", val |-> 0, vals |-> vs]

IsFloat(arg) == arg.kind = "float"

LuResult(fn, file, a, Fdrive, Adrive, fs, out) ==
    [fn |-> fn, file |-> file, a |-> a, Fdrive |-> Fdrive, Adrive |-> Adrive,
     fs |-> fs, out |-> out, order |-> <<>>, ref |-> <<>>, Qref |-> <<>>,
     lookups |-> NoLookups, var3 |-> "none"]

LuIdle == LuResult("none", NoFile, NoneArg, NoneArg, NoneArg, NoneArg, "none")

getLookups4D(file) ==
    IF ~file.exists
    THEN LuResult("getLookups4D", file, NoneArg, NoneArg, NoneArg, NoneArg,
                  "FileNotFoundError")
    ELSE [LuResult("getLookups4D", file, NoneArg, NoneArg, NoneArg, NoneArg,
                   "return")
          EXCEPT !.Qref = file.input.Q, !.lookups = file.lookup]

\* y4D[0, 0, 0, :]
FirstRow(y4D) ==
    [shape |-> <<y4D.shape[4]>>,
     data |-> [i \in IndexSet(<<y4D.shape[4]>>) |-> y4D.data[<<1, 1, 1, i[1]>>]]]

getLookupsOff(file) ==
    LET l4 == getLookups4D(file)
    IN  IF l4.out # "return" THEN [l4 EXCEPT !.fn = "getLookupsOff"]
        ELSE [l4 EXCEPT !.fn = "getLookupsOff",
                        !.lookups = [key \in LookupKeys |-> FirstRow(l4.lookups[key])]]

\* isWithin on an argument of a loader: a list is checked value by value.
WithinRef(arg, ref) ==
    LET bounds == <<Num(MinOf(ref), 0), Num(MaxOf(ref), 0)>>
        one(v) == isWithin(Num(v, 0), bounds)
    IN  IF arg.kind = "None" THEN [out |-> "return", arg |-> arg]
        ELSE IF arg.kind = "float"
        THEN [out |-> one(arg.val).out, arg |-> FloatArg(one(arg.val).ret.u)]
        ELSE IF \E k \in 1..Len(arg.vals) : one(arg.vals[k]).out # "return"
        THEN [out |-> "ValueError", arg |-> arg]
        ELSE [out |-> "return",
              arg |-> ListArg([k \in 1..Len(arg.vals) |-> one(arg.vals[k]).ret.u])]

AxisIndex(name) == CASE name = "a" -> 0 [] name = "f" -> 1 [] name = "A" -> 2

\* The names of var1, var2, var3; none is assigned when all three arguments
\* are floats.
ProjectionVars_AmplitudeFirst(a, Fdrive, Adrive) ==
    IF ~IsFloat(Adrive) THEN <<"a", "f", "A">>
    ELSE IF ~IsFloat(Fdrive) THEN <<"A", "a", "f">>
    ELSE IF ~IsFloat(a) THEN <<"A", "f", "a">>
    ELSE <<>>

ProjectionVars(a, Fdrive, Adrive) ==
    IF ~IsFloat(Adrive) THEN <<"a", "f", "A">>
    ELSE IF ~IsFloat(Fdrive) THEN <<"a", "A", "f">>
    ELSE IF ~IsFloat(a) THEN <<"f", "A", "a">>
    ELSE <<>>

\* The axis of the second projection in the array left by the first.
SecondAxis_NotAdjusted(axis1, axis2) == axis2

SecondAxis(axis1, axis2) == IF axis2 > axis1 THEN axis2 - 1 ELSE axis2

\* One interpolation applied to every coefficient; the first error ends it.
InterpAll(ref, lookups, axis, x_new) ==
    IF \E key \in LookupKeys : interp1d(ref, lookups[key], axis, x_new).out # "return"
    THEN [out |-> "ValueError", lookups |-> NoLookups]
    ELSE [out |-> "return",
          lookups |-> [key \in LookupKeys |-> interp1d(ref, lookups[key], axis, x_new).y]]

InterpAllList(ref, lookups, vals) ==
    IF \E key \in LookupKeys : interp1dList(ref, lookups[key], vals).out # "return"
    THEN [out |-> "ValueError", lookups |-> NoLookups]
    ELSE [out |-> "return",
          lookups |-> [key \in LookupKeys |-> interp1dList(ref, lookups[key], vals).y]]

getLookups2D(file, a, Fdrive, Adrive) ==
    LET res(out) == LuResult("getLookups2D", file, a, Fdrive, Adrive, NoneArg, out)
        l4 == getLookups4D(file)
        ref == file.input
        wa == WithinRef(a, ref.a)
        wF == WithinRef(Fdrive, ref.f)
        wA == WithinRef(Adrive, ref.A)
        val == [a |-> wa.arg, f |-> wF.arg, A |-> wA.arg]
        v == ProjectionVars(wa.arg, wF.arg, wA.arg)
        l3 == InterpAll(ref[v[1]], l4.lookups, AxisIndex(v[1]), val[v[1]].val)
        l2 == InterpAll(ref[v[2]], l3.lookups,
                        SecondAxis(AxisIndex(v[1]), AxisIndex(v[2])), val[v[2]].val)
        ll == InterpAllList(ref[v[3]], l2.lookups, val[v[3]].vals)
    IN  IF l4.out # "return" THEN res(l4.out)
        ELSE IF wa.out # "return" \/ wF.out # "return" \/ wA.out # "return"
        THEN res("ValueError")
        ELSE IF v = <<>> THEN res("UnboundLocalError")
        ELSE IF l3.out # "return" THEN [res("ValueError") EXCEPT !.order = <<>>]
        ELSE IF l2.out # "return" THEN [res("ValueError") EXCEPT !.order = <<v[1]>>]
        ELSE IF val[v[3]].kind = "None"
        THEN [res("return") EXCEPT !.order = <<v[1], v[2]>>, !.ref = ref[v[3]],
                                   !.Qref = ref.Q, !.lookups = l2.lookups,
                                   !.var3 = v[3]]
        ELSE IF ll.out # "return"
        THEN [res("ValueError") EXCEPT !.order = <<v[1], v[2]>>]
        ELSE [res("return") EXCEPT !.order = <<v[1], v[2], v[3]>>,
                                   !.ref = val[v[3]].vals, !.Qref = ref.Q,
                                   !.lookups = ll.lookups, !.var3 = v[3]]

getLookups2Dfs(file, fs) ==
    LET res(out) == LuResult("getLookups2Dfs", file, NoneArg, NoneArg, NoneArg, fs, out)
        ref == file.input
        w == WithinRef(fs, ref.fs)
        l2 == InterpAll(ref.fs, file.lookup, 2, w.arg.val)
    IN  IF ~file.exists THEN res("FileNotFoundError")
        ELSE IF w.out # "return" THEN res("ValueError")
        ELSE IF l2.out # "return" THEN res("ValueError")
        ELSE [res("return") EXCEPT !.order = <<"fs">>, !.ref = ref.A,
                                   !.Qref = ref.Q, !.lookups = l2.lookups]

\* The values and the lists the loaders are asked for, in units: below every
\* reference vector, on its first point, between two points, on a later point.
QueryVals == {0, 1, 3, 4}
QueryLists == {<<1>>, <<1, 3>>}
FloatArgs == {FloatArg(v) : v \in QueryVals}
OtherArgs == {NoneArg} \cup {ListArg(vs) : vs \in QueryLists}

\* The arguments of getLookups2D: at least two of the three are floats.
Queries2D ==
    {q \in (FloatArgs \cup OtherArgs) \X (FloatArgs \cup OtherArgs)
              \X (FloatArgs \cup OtherArgs) :
        Cardinality({k \in 1..3 : IsFloat(q[k])}) >= 2}

CallGetLookups4D ==
    /\ lu.out = "none"
    /\ \E file \in Files4D : lu' = getLookups4D(file)
    /\ UNCHANGED <<tvars, ct, cli, iw, lk, dc, tr, sp, run>>

CallGetLookupsOff ==
    /\ lu.out = "none"
    /\ \E file \in FilesOff : lu' = getLookupsOff(file)
    /\ UNCHANGED <<tvars, ct, cli, iw, lk, dc, tr, sp, run>>

CallGetLookups2D ==
    /\ lu.out = "none"
    /\ \E file \in Files4D, q \in Queries2D :
           lu' = getLookups2D(file, q[1], q[2], q[3])
    /\ UNCHANGED <<tvars, ct, cli, iw, lk, dc, tr, sp, run>>

CallGetLookups2Dfs ==
    /\ lu.out = "none"
    /\ \E file \in FilesFs, fs \in FloatArgs : lu' = getLookups2Dfs(file, fs)
    /\ UNCHANGED <<tvars, ct, cli, iw, lk, dc, tr, sp, run>>

LuNext ==
    \/ CallGetLookups4D
    \/ CallGetLookupsOff
    \/ CallGetLookups2D
    \/ CallGetLookups2Dfs

\* ------------------------------------------------------------- duty cycle
\* PWSimParser: --DC takes duty cycles in percent, the parser returns them as
\* fractions.  Fractions are counted here in units of 1e-4, percents in units
\* of one percent, so the factor 1e-2 is 100 units per percent.
DCDefault == 100
DCFactor == 100
DCOne == DCDefault * DCFactor

\* self.allowed['DC']
AllowedDC == 0..100

PercentVals == {-5, 0, 50, 100, 150}

\* What the command line gives for --DC: nothing, or one value or more.
DCArgs == UNION {[1..n -> PercentVals] : n \in 0..MaxLen}

\* Parser.parse: an argument left out takes its default, as a list.
WithDefaultDC(given) == IF given = <<>> THEN <<DCDefault>> ELSE given

parseDC(DC, spanDC) ==
    IF spanDC THEN [k \in 1..100 |-> k * DCFactor]
    ELSE [k \in 1..Len(DC) |-> DC[k] * DCFactor]

\* The parts of ASTIM_filecode and ESTIM_filecode that depend on DC.
filecode(fn, DC) ==
    [fn |-> fn, DC |-> DC,
     mode |-> IF DC = DCOne THEN "CW" ELSE "PW",
     suffix |-> DC < DCOne]

DcIdle == [pc |-> "idle", fn |-> "none", given |-> <<>>, spanDC |-> FALSE,
           DC |-> <<>>, codes |-> <<>>]

\* PWSimParser.parse on a command line, for a script that names its output
\* files with fn.
ParsePW ==
    /\ dc.pc = "idle"
    /\ \E given \in DCArgs, spanDC \in BOOLEAN,
          fn \in {"ASTIM_filecode", "ESTIM_filecode"} :
           dc' = [pc |-> "parsed", fn |-> fn, given |-> given, spanDC |-> spanDC,
                  DC |-> parseDC(WithDefaultDC(given), spanDC), codes |-> <<>>]
    /\ UNCHANGED <<tvars, ct, cli, iw, lk, lu, tr, sp, run>>

\* The file code of the next simulation of the batch.
NameOutput ==
    /\ dc.pc = "parsed"
    /\ Len(dc.codes) < Len(dc.DC)
    /\ dc' = [dc EXCEPT !.codes = Append(@, filecode(dc.fn, dc.DC[Len(dc.codes) + 1]))]
    /\ UNCHANGED <<tvars, ct, cli, iw, lk, lu, tr, sp, run>>

DcNext ==
    \/ ParsePW
    \/ NameOutput

\* ------------------------------------------------------------- test runners
\* Python values of two types, compared as Python compares them: values of
\* different types are never equal.
PyStr(s) == [type |-> "str", str |-> s, items |-> <<>>]
PyList(items) == [type |-> "list", str |-> "", items |-> items]
PyEq(x, y) == x.type = y.type /\ x.str = y.str /\ x.items = y.items

ProfilingError == "profiling can only be run on individual tests"

TestNames == <<"MECH", "ESTIM", "ASTIM_effective", "ASTIM_classic", "ASTIM_hybrid">>

\* tests/test_basic.py: valid_testsets
valid_testsets == Range(TestNames) \cup {"all"}

\* A test to run and the is_profiled flag it is run with.
Job(name, is_profiled) == [test |-> name, is_profiled |-> is_profiled]

TrIdle == [runner |-> "none", pc |-> "idle", profile |-> FALSE,
           given |-> PyStr(""), testsets |-> <<>>, queue |-> <<>>, ran |-> <<>>,
           log |-> <<>>, out |-> "none"]

\* test_all()
test_all == [k \in 1..Len(TestNames) |-> Job(TestNames[k], FALSE)]

\* main() of tests/test_basic.py up to the first test.
TestBasicMain ==
    /\ tr.pc = "idle"
    /\ \E testset \in valid_testsets, profile \in BOOLEAN :
           tr' = IF profile /\ testset = "all"
                 THEN [TrIdle EXCEPT !.runner = "test_basic", !.pc = "done",
                                     !.profile = profile, !.given = PyStr(testset),
                                     !.testsets = TestNames,
                                     !.log = <<ProfilingError>>, !.out = "exit 2"]
                 ELSE [TrIdle EXCEPT !.runner = "test_basic", !.pc = "running",
                                     !.profile = profile, !.given = PyStr(testset),
                                     !.testsets = TestNames,
                                     !.queue = IF testset = "all" THEN test_all
                                               ELSE <<Job(testset, profile)>>]
    /\ UNCHANGED <<tvars, ct, cli, iw, lk, lu, dc, sp, run>>

\* TestParser.parseSubset
parseSubset(subset, subset_choices) ==
    IF PyEq(subset, PyList(<<"all">>)) THEN PyList(subset_choices) ELSE subset

\* What --subset can give: its default ['all'], or one or more of the
\* choices or 'all'.
SubsetArgs(choices) ==
    {PyList(v) : v \in UNION {[1..n -> Range(choices) \cup {"all"}] : n \in 1..MaxLen}}

\* TestBase.main up to the first test: parseCommandLineArgs on the parsed
\* command line, then runTests.
TestBaseMain ==
    /\ tr.pc = "idle"
    /\ \E n \in 1..MaxTests, profile \in BOOLEAN :
         LET testsets == SubSeq(TestNames, 1, n)
         IN  \E given \in SubsetArgs(testsets) :
               LET subset == parseSubset(given, testsets)
               IN  tr' = IF profile /\ PyEq(subset, PyStr("all"))
                         THEN [TrIdle EXCEPT !.runner = "TestBase", !.pc = "done",
                                             !.profile = profile, !.given = given,
                                             !.testsets = testsets,
                                             !.log = <<ProfilingError>>,
                                             !.out = "return"]
                         ELSE [TrIdle EXCEPT !.runner = "TestBase", !.pc = "running",
                                             !.profile = profile, !.given = given,
                                             !.testsets = testsets,
                                             !.queue = [k \in 1..Len(subset.items) |->
                                                          Job(subset.items[k], profile)]]
    /\ UNCHANGED <<tvars, ct, cli, iw, lk, lu, dc, sp, run>>

\* The next test of the run; a name that is no test ends the run.
RunNextTest ==
    /\ tr.pc = "running"
    /\ tr.queue # <<>>
    /\ tr' = IF Head(tr.queue).test \in Range(tr.testsets)
             THEN [tr EXCEPT !.queue = Tail(@), !.ran = Append(@, Head(tr.queue))]
             ELSE [tr EXCEPT !.pc = "done", !.out = "KeyError"]
    /\ UNCHANGED <<tvars, ct, cli, iw, lk, lu, dc, sp, run>>

\* The end of the run, after the last test.
FinishTests ==
    /\ tr.pc = "running"
    /\ tr.queue = <<>>
    /\ tr' = [tr EXCEPT !.pc = "done",
                        !.out = IF tr.runner = "test_basic" THEN "exit 0" ELSE "return",
                        !.log = Append(@, "tests completed")]
    /\ UNCHANGED <<tvars, ct, cli, iw, lk, lu, dc, sp, run>>

TrNext ==
    \/ TestBasicMain
    \/ TestBaseMain
    \/ RunNextTest
    \/ FinishTests


\* ------------------------------------------------------------- stimulation pulses
\* getStimPulses(t, states): states holds 0 (OFF) or 1 (ON) for every sample,
\* sample k (counted from 0) is taken at time k.  Index arrays hold sample
\* numbers counted from 0, as in the code.
StateVectors == UNION {[1..n -> {0, 1}] : n \in 1..MaxSamples}

\* np.diff(states)
Diff(states) == [k \in 1..(Len(states) - 1) |-> states[k + 1] - states[k]]

RECURSIVE WhereFrom(_, _, _)
WhereFrom(d, sign, k) ==
    IF k > Len(d) THEN <<>>
    ELSE IF d[k] * sign > 0 THEN <<k>> \o WhereFrom(d, sign, k + 1)
    ELSE WhereFrom(d, sign, k + 1)

\* np.where(dstates > 0.0)[0] + 1 (sign 1), np.where(dstates < 0.0)[0] + 1
\* (sign -1): the samples at which the state rises, or falls.
WherePlusOne(d, sign) == WhereFrom(d, sign, 1)

\* np.insert(arr, i, value): value is placed before the element of index i.
Insert(arr, i, value) == SubSeq(arr, 1, i) \o <<value>> \o SubSeq(arr, i + 1, Len(arr))

\* t[indexes]
TimesAt(t, indexes) == [k \in 1..Len(indexes) |-> t[indexes[k] + 1]]

SpIdle == [out |-> "none", states |-> <<>>, npulses |-> 0, tpulse_on |-> <<>>,
           tpulse_off |-> <<>>]

getStimPulses(t, states) ==
    LET dstates == Diff(states)
        ipulse_on == Insert(WherePlusOne(dstates, 1), 0, 0)
        falling == WherePlusOne(dstates, -1)
        ioff == Len(t) - 1
        ipulse_off == IF Len(falling) < Len(ipulse_on)
                      THEN IF Len(falling) = 0 THEN <<ioff>>
                           ELSE Insert(falling, Len(falling) - 1, ioff)
                      ELSE falling
    IN  [out |-> "return", states |-> states, npulses |-> Len(ipulse_on),
         tpulse_on |-> TimesAt(t, ipulse_on), tpulse_off |-> TimesAt(t, ipulse_off)]

CallGetStimPulses ==
    /\ sp.out = "none"
    /\ \E states \in StateVectors :
           sp' = getStimPulses([k \in 1..Len(states) |-> k - 1], states)
    /\ UNCHANGED <<tvars, ct, cli, iw, lk, lu, dc, tr, run>>

SpNext == CallGetStimPulses

\* ------------------------------------------------------------- simulation run
\* One simulation run under a pulsed protocol.  Simulated time is counted in
\* ticks; a pulse period lasts `period` ticks of which the first `ton` are ON
\* (ton = period is a continuous wave), the stimulus lasts a whole number of
\* periods and is followed by an offset window of `toffset` ticks.
RunStates == {"Idle", "Stimulating", "PostStimulus", "Done"}

RunIdle == [state |-> "Idle", t |-> 0, on |-> FALSE, tstim |-> 0, toffset |-> 0,
            period |-> 1, ton |-> 1, pulses |-> 0]

\* The drive envelope of the pulsed protocol at time t.
Envelope(r, t) == t < r.tstim /\ (t % r.period) < r.ton

\* Variant of NextBoundary that never moves on.
NextBoundary_Stalled(r) == r.t
\* The first instant after r.t at which the envelope switches, or the end of
\* the stimulus.
NextBoundary(r) ==
    IF Envelope(r, r.t) /\ r.ton < r.period
    THEN r.t - (r.t % r.period) + r.ton
    ELSE r.t - (r.t % r.period) + r.period

StartRun ==
    /\ run.state = "Idle"
    /\ \E period \in 1..MaxPeriod, n \in 1..MaxPulses, toffset \in 0..MaxOffset :
       \E ton \in 1..period :
           run' = [state |-> "Stimulating", t |-> 0, on |-> TRUE, tstim |-> n * period,
                   toffset |-> toffset, period |-> period, ton |-> ton, pulses |-> 1]
    /\ UNCHANGED <<tvars, ct, cli, iw, lk, lu, dc, tr, sp>>

\* Integration of one ON or OFF sub-interval, up to the next switch.
IntegrateSubInterval ==
    /\ run.state = "Stimulating"
    /\ run.t < run.tstim
    /\ LET t == NextBoundary(run)
           on == Envelope(run, t)
       IN  run' = [run EXCEPT !.t = t, !.on = on,
                              !.pulses = IF on /\ ~run.on THEN @ + 1 ELSE @]
    /\ UNCHANGED <<tvars, ct, cli, iw, lk, lu, dc, tr, sp>>

EndStimulus ==
    /\ run.state = "Stimulating"
    /\ run.t = run.tstim
    /\ run' = [run EXCEPT !.state = "PostStimulus", !.on = FALSE]
    /\ UNCHANGED <<tvars, ct, cli, iw, lk, lu, dc, tr, sp>>

\* Integration of the offset window.
IntegrateOffset ==
    /\ run.state = "PostStimulus"
    /\ run' = [run EXCEPT !.state = "Done", !.t = run.tstim + run.toffset]
    /\ UNCHANGED <<tvars, ct, cli, iw, lk, lu, dc, tr, sp>>

RunNext == \/ StartRun \/ IntegrateSubInterval \/ EndStimulus \/ IntegrateOffset

\* A run that was started is carried through: its steps need no outside event.
RunProgress == \/ IntegrateSubInterval \/ EndStimulus \/ IntegrateOffset

\* ------------------------------------------------------------- specifications
Init ==
    /\ TInit
    /\ ct = CtIdle
    /\ cli = CliIdle
    /\ iw = IwIdle
    /\ lk = LkIdle
    /\ lu = LuIdle
    /\ dc = DcIdle
    /\ tr = TrIdle
    /\ sp = SpIdle
    /\ run = RunIdle

SpecTitrate == Init /\ [][TNext]_vars
SpecCheckTitrate == Init /\ [][CtNext]_vars
SpecCli == Init /\ [][CliNext]_vars
SpecIsWithin == Init /\ [][IwNext]_vars
SpecIsWithinList == Init /\ [][IwListNext]_vars
SpecLookupBuild == Init /\ [][LkNext]_vars
SpecLookups == Init /\ [][LuNext]_vars
SpecDutyCycle == Init /\ [][DcNext]_vars
SpecTests == Init /\ [][TrNext]_vars
SpecStimPulses == Init /\ [][SpNext]_vars
SpecRun == Init /\ [][RunNext]_vars /\ WF_vars(RunProgress)




\* ------------------------------------------------------------- titrate claims
Returned == pc = "returned"
Width(xb) == xb[2] - xb[1]

\* Outcomes appended to is_excited by the running call.
ThisCall == SubSeq(is_excited, call.start_len + 1, Len(is_excited))

\* The running call started with an empty outcome history.
EmptyStart == call.start_len = 0

\* 0 spikes below the threshold X, exactly 1 spike at or above it.
IsStep(f) == f.below = 0 /\ f.above = 1

\* Smallest k with dx_thr * 2^k >= w: log2(w / dx_thr) rounded up.
RECURSIVE CeilLog2(_, _)
CeilLog2(w, dx_thr) == IF dx_thr >= w THEN 0 ELSE 1 + CeilLog2(w, 2 * dx_thr)

\* C1: a call started with an empty history, on a step observable whose
\* threshold X lies in the initial interval, returns a value within dx_thr
\* of X (never NaN, never an error).
C1_StepConvergesWithinTolerance ==
    (/\ Returned
     /\ EmptyStart
     /\ IsStep(call.f)
     /\ call.xbounds[1] <= call.f.X
     /\ call.f.X <= call.xbounds[2])
    => /\ result.kind = "value"
       /\ Abs(result.val - call.f.X) <= call.dx_thr

\* C2: a call all of whose evaluated midpoints had the same outcome (all
\* excited or all not excited) returns NaN.
C2_ConstantOutcomeGivesNaN ==
    (/\ Returned
     /\ \A i, j \in 1..Len(ThisCall) : ThisCall[i] = ThisCall[j])
    => result = NaN

\* C3: the result of a call made without an explicit history depends only on
\* its observable, bounds and tolerance: it is the result the same call
\* gives on an empty history.
C3_ResultIndependentOfEarlierCalls ==
    (Returned /\ aliased)
    => result = titrate(call.f, call.xbounds, call.dx_thr, <<>>)

\* C4: a frame returns its midpoint if and only if the interval is not wider
\* than the tolerance and (exactly one spike was observed at the midpoint, or
\* both outcomes were observed during this search and the midpoint is excited).
C4_ReturnsMidpointIffConverged ==
    (depth > 0)
    => ((Returned /\ result = Value(last.x))
        <=> /\ Width(last.xbounds) <= call.dx_thr
            /\ \/ last.nspikes = 1
               \/ /\ BothEncountered(ThisCall)
                  /\ last.nspikes > 0)

\* C5: a returned threshold lies in the initial interval and is a point at
\* which the observable reported at least one spike.
C5_ReturnedPointInBoundsAndExcited ==
    (Returned /\ result.kind = "value")
    => /\ call.xbounds[1] <= result.val
       /\ result.val <= call.xbounds[2]
       /\ result.val = last.x
       /\ nspikes_func(call.f, result.val) >= 1

C5_Witness ==
    /\ Returned
    /\ result.kind = "value"
    /\ last.nspikes = 2
    /\ depth > 2

\* C6: the number of frames (observable evaluations) of one call is at most
\* log2((upper - lower) / dx_thr) rounded up, plus the final evaluation.
C6_DepthBounded ==
    EmptyStart => depth <= CeilLog2(Width(call.xbounds), call.dx_thr) + 1

\* ------------------------------------------------------------- checkTitrate claims
NCalls(fn) == Cardinality({k \in 1..Len(ct.calls) : ct.calls[k].fn = fn})

\* C7: when the argument at the titration variable's position is None,
\* titrate is called once with the other positional arguments in their order,
\* and on a finite threshold the simulation function is called exactly once
\* with the threshold at that position and every other argument unchanged;
\* otherwise titrate is not called and the arguments are passed unchanged.
C7_NoneMeansTitrate ==
    (ct.out # "none" /\ ct.iarg <= Len(ct.args))
    => IF ct.args[ct.iarg] = None
       THEN /\ NCalls("titrate") = 1
            /\ ct.calls[1].fn = "titrate"
            /\ Len(ct.calls[1].args) = Len(ct.args) - 1
            /\ \A j \in 1..(Len(ct.args) - 1) :
                  ct.calls[1].args[j] =
                      IF j < ct.iarg THEN ct.args[j] ELSE ct.args[j + 1]
            /\ (ct.xthr # nan)
               => /\ NCalls("simfunc") = 1
                  /\ ct.calls[2].fn = "simfunc"
                  /\ Len(ct.calls[2].args) = Len(ct.args)
                  /\ \A j \in 1..Len(ct.args) :
                        ct.calls[2].args[j] =
                            IF j = ct.iarg THEN ct.xthr ELSE ct.args[j]
                  /\ ct.calls[2].kwargs = ct.kwargs
       ELSE /\ NCalls("titrate") = 0
            /\ ct.calls = <<[fn |-> "simfunc", args |-> ct.args,
                             kwargs |-> ct.kwargs]>>

C7_Witness ==
    /\ Len(ct.args) = 3
    /\ ct.iarg = 2
    /\ ct.args = <<1, None, 2>>
    /\ ct.xthr = 2
    /\ ct.out = "simfunc"
    /\ Len(ct.calls) = 2

\* ------------------------------------------------------------- command-line claims
\* C8: only the tokens full, hybrid and sonic are accepted: whatever an entry
\* point parsed successfully or queued for simulation is one of the three.
C8_OnlyThreeMethodTokens ==
    /\ \A i \in 1..Len(cli.queued) : cli.queued[i] \in {"full", "hybrid", "sonic"}
    /\ (cli.status = "ok")
       => \A i \in 1..Len(cli.parsed) : cli.parsed[i] \in {"full", "hybrid", "sonic"}

\* ------------------------------------------------------------- isWithin claims
\* rel_tol * |b| for a whole bound b, in units of 1e-12.
RoundingTol(b) == 1000 * Abs(b.u)

\* How far val lies below the lower bound / above the upper bound, in units
\* of 1e-12, when it lies within one whole unit of it.
Below(val, b) == b.p - val.p
Above(val, b) == val.p - b.p

\* C9: a value inside the interval is returned unchanged; a value outside it
\* by no more than the rounding tolerance of the nearest bound is replaced by
\* that bound, with a warning; a value further outside raises.
C9_IsWithinContract ==
    (iw.out # "none")
    => LET v == iw.val
           lo == iw.bounds[1]
           hi == iw.bounds[2]
       IN  /\ (FLeq(lo, v) /\ FLeq(v, hi))
              => (iw.out = "return" /\ iw.ret = v /\ iw.log = <<>>)
           /\ (v.u = lo.u /\ Below(v, lo) > 0 /\ Below(v, lo) <= RoundingTol(lo))
              => (iw.out = "return" /\ iw.ret = lo /\ Len(iw.log) = 1)
           /\ (v.u = hi.u /\ Above(v, hi) > 0 /\ Above(v, hi) <= RoundingTol(hi))
              => (iw.out = "return" /\ iw.ret = hi /\ Len(iw.log) = 1)
           /\ (\/ v.u < lo.u
               \/ v.u = lo.u /\ Below(v, lo) > RoundingTol(lo)
               \/ v.u > hi.u
               \/ v.u = hi.u /\ Above(v, hi) > RoundingTol(hi))
              => (iw.out = "ValueError" /\ iw.log = <<>>)

\* A query 1e-12 relative units above the upper bound 1 is clamped to it.
C9_Witness ==
    /\ iw.bounds[2] = Num(1, 0)
    /\ iw.val = Num(1, 1)
    /\ iw.out = "return"
    /\ iw.ret = Num(1, 0)
    /\ Len(iw.log) = 1

\* C10: next to a bound that is exactly 0, a query outside the range by no
\* more than floating rounding (1e-12 or 2e-12 below 0) is clamped to 0 with
\* a warning.
C10_ZeroBoundClamped ==
    (/\ iw.out # "none"
     /\ iw.bounds[1] = Zero
     /\ iw.bounds[2] = Num(1, 0)
     /\ iw.val \in {Num(0, -1), Num(0, -2)})
    => (iw.out = "return" /\ iw.ret = Zero /\ Len(iw.log) = 1)

\* ------------------------------------------------------------- lookup build claims
\* computeAStimLookup has returned its Lookup.
LookupReturned == lk.entry = "run_lookups" /\ lk.pc = "done" /\ lk.out = "Lookup"

\* C11: after computeAStimLookup returns, every stored table (V, ng and tcomp)
\* has the shape (n_a, n_f, n_A, n_Q, n_fs) of the reference vectors, in the
\* order a, f, A, Q, fs of the reference dictionary, and one cell per index.
C11_TablesHaveAxesShape ==
    LookupReturned
    => \A key \in {"V", "ng", "tcomp"} :
          /\ lk.tables[key].shape =
                <<Len(lk.refs.a.vals), Len(lk.refs.f.vals), Len(lk.refs.A.vals),
                  Len(lk.refs.Q.vals), Len(lk.refs.fs.vals)>>
          /\ DOMAIN lk.tables[key].data = IndexSet(lk.tables[key].shape)

\* A table with several frequencies, amplitudes and charges and one radius
\* and coverage fraction, built with mpi.
C11_Witness ==
    /\ LookupReturned
    /\ lk.mpi
    /\ lk.tables.tcomp.shape = <<1, 2, 2, 2, 1>>

C12_OutOfOrder ==
    /\ lk.entry = "run_lookups"
    /\ lk.pc = "batch"
    /\ lk.mpi
    /\ Len(lk.outs) >= 2
    /\ lk.outs[1].state = "none"
    /\ lk.outs[2].state = "done"

FailedOutputs == {i \in 1..Len(lk.outputs) : lk.outputs[i].state = "failed"}

\* C13: when the computation fails for some combination, the build still
\* evaluates every other combination and returns its tables, in which the
\* cells of the other combinations hold their values and the failed cells do
\* not hold a computed value.
C13_FailureDoesNotAbortBuild ==
    (lk.entry = "run_lookups" /\ lk.pc = "done" /\ FailedOutputs # {})
    => /\ lk.out = "Lookup"
       /\ Len(lk.outputs) = Len(lk.refs.a.vals) * Len(lk.queue)
       /\ \A i \in IndexSet(Dims(lk.refs)) :
             LET value == EffVars(lk.refs.a.vals[i[1]], lk.refs.f.vals[i[2]],
                                  lk.refs.A.vals[i[3]], lk.refs.Q.vals[i[4]],
                                  lk.refs.fs.vals[i[5]]).V
             IN  (lk.tables.V.data[i] = value)
                    <=> (lk.refs.A.vals[i[3]] \notin lk.failing)

\* Some reference vector is empty, is not float typed, or holds a radius or
\* frequency <= 0 or an amplitude or coverage fraction < 0.
InvalidAxes(refs) ==
    \/ \E k \in 1..Len(RefKeys) :
          \/ Len(refs[RefKeys[k]].vals) = 0
          \/ refs[RefKeys[k]].dtype # "float"
    \/ \E k \in {"a", "f"} : \E j \in 1..Len(refs[k].vals) : refs[k].vals[j] <= 0
    \/ \E k \in {"A", "fs"} : \E j \in 1..Len(refs[k].vals) : refs[k].vals[j] < 0

\* C14: a build (computeAStimLookup, computeAStimLookups, the run_lookups_fs
\* script) given invalid axes raises before any evaluation, and a build given
\* valid axes, amplitudes and coverage fractions of 0 included, starts its
\* evaluations.
C14_AxesValidatedBeforeEvaluation ==
    (lk.entry \in {"run_lookups", "run_lookups_fs"}
        /\ lk.out \notin {"unknown neuron", "canceled"})
    => /\ InvalidAxes(lk.refs)
          => (lk.pc = "done" /\ lk.outputs = <<>>
              /\ lk.out \in {"TypeError", "ValueError", "AssertionError",
                             "IndexError"})
       /\ (~InvalidAxes(lk.refs)
              /\ Len(lk.refs.a.vals) = 1 /\ Len(lk.refs.f.vals) = 1)
          => (lk.pc # "done" \/ lk.outputs # <<>>)

\* ------------------------------------------------------------- loader claims
\* The lengths of the reference vectors of a file, in axis order.
FileAxisLens(file) ==
    IF file.input.fs = <<>>
    THEN <<Len(file.input.a), Len(file.input.f), Len(file.input.A), Len(file.input.Q)>>
    ELSE <<Len(file.input.A), Len(file.input.Q), Len(file.input.fs)>>

\* Every array of the file has the shape its reference vectors give.
Consistent(file) ==
    /\ file.exists
    /\ \A key \in LookupKeys : file.lookup[key].shape = FileAxisLens(file)

InRef(arg, ref) ==
    /\ IsFloat(arg) => ref[1] <= arg.val /\ arg.val <= ref[Len(ref)]
    /\ \A k \in 1..Len(arg.vals) : ref[1] <= arg.vals[k] /\ arg.vals[k] <= ref[Len(ref)]

LuArgs == [a |-> lu.a, f |-> lu.Fdrive, A |-> lu.Adrive]

FloatAxes == SelectSeq(<<"a", "f", "A">>, LAMBDA n : IsFloat(LuArgs[n]))
ListAxes == SelectSeq(<<"a", "f", "A">>, LAMBDA n : LuArgs[n].kind = "list")
OtherAxes == SelectSeq(<<"a", "f", "A">>, LAMBDA n : ~IsFloat(LuArgs[n]))

\* A call of getLookups2D on a well-formed file with two floats in range.
TwoScalarQuery ==
    /\ lu.fn = "getLookups2D"
    /\ Consistent(lu.file)
    /\ Len(FloatAxes) = 2
    /\ \A n \in {"a", "f", "A"} : InRef(LuArgs[n], lu.file.input[n])

\* C15: a query of getLookups2D that fixes two of a, Fdrive, Adrive as floats
\* returns, for every coefficient, a 2-D array over the remaining axis (the
\* reference vector of the file, or the list asked for) and the charge axis.
C15_TwoScalarsGive2DTables ==
    TwoScalarQuery =>
        /\ lu.out = "return"
        /\ lu.var3 = OtherAxes[1]
        /\ lu.ref = IF ListAxes = <<>> THEN lu.file.input[OtherAxes[1]]
                    ELSE LuArgs[OtherAxes[1]].vals
        /\ lu.Qref = lu.file.input.Q
        /\ \A key \in LookupKeys :
               lu.lookups[key].shape = <<Len(lu.ref), Len(lu.Qref)>>

\* Radius and amplitude fixed on a table whose frequency axis is longer than
\* the two others: the second projection is on the axis after the removed one.
C15_Witness ==
    /\ TwoScalarQuery
    /\ lu.order = <<"a", "A">>
    /\ FileAxisLens(lu.file) = <<2, 3, 2, 2>>
    /\ lu.lookups.V.shape = <<3, 2>>

GridIndex(ref, v) == CHOOSE k \in 1..Len(ref) : ref[k] = v

OnGrid(arg, ref) == IsFloat(arg) /\ \E k \in 1..Len(ref) : ref[k] = arg.val

\* C16: a projection at values of the grid returns the stored slice: of
\* getLookups2D at a = aref[i] and Fdrive = Fref[j], of getLookups2Dfs at
\* fs = fsref[k].
C16_ProjectionAtGridPointsIsExact ==
    /\ ( /\ lu.fn = "getLookups2D" /\ lu.out = "return" /\ Consistent(lu.file)
         /\ OnGrid(lu.a, lu.file.input.a) /\ OnGrid(lu.Fdrive, lu.file.input.f)
         /\ lu.Adrive = NoneArg )
       => \A key \in LookupKeys : \A i \in IndexSet(lu.lookups[key].shape) :
              lu.lookups[key].data[i] =
                  lu.file.lookup[key].data[<<GridIndex(lu.file.input.a, lu.a.val),
                                             GridIndex(lu.file.input.f, lu.Fdrive.val),
                                             i[1], i[2]>>]
    /\ ( /\ lu.fn = "getLookups2Dfs" /\ lu.out = "return" /\ Consistent(lu.file)
         /\ OnGrid(lu.fs, lu.file.input.fs) )
       => \A key \in LookupKeys : \A i \in IndexSet(lu.lookups[key].shape) :
              lu.lookups[key].data[i] =
                  lu.file.lookup[key].data[<<i[1], i[2],
                                             GridIndex(lu.file.input.fs, lu.fs.val)>>]

\* C17: whenever getLookups2D interpolates the amplitude axis and another
\* axis in one call, the amplitude axis is the last one interpolated.
C17_AmplitudeInterpolatedLast ==
    (lu.fn = "getLookups2D" /\ lu.out = "return"
        /\ \E k \in 1..Len(lu.order) : lu.order[k] = "A")
    => lu.order[Len(lu.order)] = "A"

\* C17, amended: the order of the interpolations is fixed by the kinds of the
\* arguments: the two axes given as floats are projected first, radius before
\* frequency before amplitude, and an axis given as a list is interpolated
\* after both projections.
C17_ScalarsInAxisOrderThenList ==
    (lu.fn = "getLookups2D" /\ lu.out = "return")
    => lu.order = FloatAxes \o ListAxes

\* Radius and amplitude fixed, a list of frequencies: the frequency axis is
\* interpolated after the amplitude axis.
C17_Witness ==
    /\ lu.fn = "getLookups2D"
    /\ lu.out = "return"
    /\ lu.order = <<"a", "A", "f">>

\* C18: no loader returns lookups from a file in which an array has another
\* shape than the lengths of the reference vectors.
C18_LoadersRejectInconsistentFiles ==
    lu.out = "return" => Consistent(lu.file)

\* ------------------------------------------------------------- duty cycle claims
\* C19: every duty cycle the parser of pulsed protocols produces lies in
\* [0, 1], and an output is labelled continuous-wave exactly when its duty
\* cycle is 1.
C19_DutyCycleInUnitInterval ==
    /\ \A k \in 1..Len(dc.DC) : 0 <= dc.DC[k] /\ dc.DC[k] <= DCOne
    /\ \A k \in 1..Len(dc.codes) :
           (dc.codes[k].mode = "CW") <=> (dc.codes[k].DC = DCOne)

\* ------------------------------------------------------------- test runner claims
\* Profiling was asked for together with the whole set of tests.
ProfilingAll ==
    /\ tr.runner # "none"
    /\ tr.profile
    /\ PyEq(tr.given, PyStr("all")) \/ PyEq(tr.given, PyList(<<"all">>))

\* C20: when profiling is asked for together with the 'all' subset, the
\* runner reports 'profiling can only be run on individual tests' and runs
\* no test.
C20_ProfilingAllRunsNothing ==
    ProfilingAll => tr.pc = "done" /\ tr.log = <<ProfilingError>> /\ tr.ran = <<>>

\* ------------------------------------------------------------- titrate claims, continued
\* The half of the interval xb on the side the outcome at its midpoint names.
HalfToward(xb, f) ==
    IF nspikes_func(f, Midpoint(xb)) > 0 THEN <<xb[1], Midpoint(xb)>>
    ELSE <<Midpoint(xb), xb[2]>>

\* C23: a refinement step replaces the interval by its lower half when the
\* midpoint is excited and by its upper half otherwise; every interval
\* visited lies in the initial bounds, and after k refinements its width is
\* the initial width divided by 2^k.
C23_IntervalHalvedTowardThreshold ==
    /\ [](pc = "frame" =>
            /\ call.xbounds[1] <= xbounds[1]
            /\ xbounds[2] <= call.xbounds[2]
            /\ Width(xbounds) * Pow2(depth) = Width(call.xbounds))
    /\ [][(pc = "frame" /\ pc' = "frame") =>
            /\ xbounds' = HalfToward(xbounds, call.f)
            /\ 2 * Width(xbounds') = Width(xbounds)]_vars

\* C24: every call of titrate returns a threshold or NaN.
C24_TitrateTerminates ==
    Returned => result.kind \in {"value", "nan"}

\* ------------------------------------------------------------- checkTitrate claims, continued
\* The titration variable was None and self.titrate returned NaN.
NoThreshold ==
    /\ ct.out # "none"
    /\ ct.iarg <= Len(ct.args)
    /\ ct.args[ct.iarg] = None
    /\ ct.xthr = nan

\* C25: when the titration returns NaN the simulation function is not
\* called, the failure is logged and the wrapper returns None; logNSpikes
\* returns that None without detecting spikes.
C25_NoThresholdSkipsSimulation ==
    NoThreshold
    => /\ NCalls("titrate") = 1
       /\ NCalls("simfunc") = 0
       /\ ct.detections = 0
       /\ ct.out = "None"
       /\ ct.log = <<"Could not find threshold">>

\* A titration without threshold under logNSpikes.
C25_Witness ==
    /\ NoThreshold
    /\ ct.wrapper = "logNSpikes"
    /\ ct.args = <<1, None, 2>>
    /\ ct.out = "None"

\* ------------------------------------------------------------- isWithin claims, continued
\* C26: a value isWithin returns lies between the bounds and is returned
\* unchanged by isWithin; for a list the call returns the results of its
\* elements in their order, and raises as soon as one element is out of range.
C26_ResultInBoundsAndElementwise ==
    /\ (iw.kind = "float" /\ iw.out = "return")
       => /\ FLeq(iw.bounds[1], iw.ret)
          /\ FLeq(iw.ret, iw.bounds[2])
          /\ isWithin(iw.ret, iw.bounds).out = "return"
          /\ isWithin(iw.ret, iw.bounds).ret = iw.ret
    /\ (iw.kind = "list")
       => /\ (iw.out = "return")
             <=> \A k \in 1..Len(iw.vals) :
                    isWithin(iw.vals[k], iw.bounds).out = "return"
          /\ (iw.out = "return")
             => /\ Len(iw.rets) = Len(iw.vals)
                /\ \A k \in 1..Len(iw.vals) :
                      /\ iw.rets[k] = isWithin(iw.vals[k], iw.bounds).ret
                      /\ FLeq(iw.bounds[1], iw.rets[k])
                      /\ FLeq(iw.rets[k], iw.bounds[2])
          /\ (iw.out # "return") => (iw.out = "ValueError" /\ iw.rets = <<>>)

\* A list whose first element is in range and whose second is clamped.
C26_Witness ==
    /\ iw.kind = "list"
    /\ iw.out = "return"
    /\ Len(iw.vals) = 2
    /\ iw.rets[1] = iw.vals[1]
    /\ iw.rets[2] # iw.vals[2]

\* ------------------------------------------------------------- stimulation pulse claims
\* The number of maximal runs of consecutive ON samples.
OnRuns(states) ==
    Cardinality({k \in 1..Len(states) :
                    states[k] = 1 /\ (k = 1 \/ states[k - 1] = 0)})

Ascending(times) == \A k \in 1..(Len(times) - 1) : times[k] <= times[k + 1]

\* C27: getStimPulses reports as many pulses as the state vector has maximal
\* runs of consecutive ON samples, whether it starts ON or OFF and whether
\* it ends ON or OFF.
C27_PulsesAreOnRuns ==
    (sp.out = "return") => sp.npulses = OnRuns(sp.states)

\* C28: the onset and offset arrays getStimPulses returns both have npulses
\* entries, each in ascending time order, and no onset is later than the
\* offset of the same pulse.
C28_PulsesWellFormed ==
    (sp.out = "return")
    => /\ Len(sp.tpulse_on) = sp.npulses
       /\ Len(sp.tpulse_off) = sp.npulses
       /\ Ascending(sp.tpulse_on)
       /\ Ascending(sp.tpulse_off)
       /\ \A k \in 1..sp.npulses : sp.tpulse_on[k] <= sp.tpulse_off[k]

\* ------------------------------------------------------------- simulation run claims
RunTransitions ==
    {<<"Idle", "Stimulating">>, <<"Stimulating", "Stimulating">>,
     <<"Stimulating", "PostStimulus">>, <<"PostStimulus", "Done">>}

SpansCoverage(refs) ==
    \/ Len(refs.fs.vals) > 1
    \/ Len(refs.fs.vals) = 1 /\ refs.fs.vals[1] # FsFull

OneRadiusOneFrequency(refs) == Len(refs.a.vals) = 1 /\ Len(refs.f.vals) = 1

\* C30: computeAStimLookup spans the coverage axis (several coverage
\* fractions, or a single one different from 1) only for exactly one radius
\* and exactly one frequency: otherwise it fails before any simulation is
\* started and produces no table.
C30_CoverageNeedsOneRadiusOneFrequency ==
    (/\ lk.entry = "run_lookups"
     /\ lk.out # "canceled"
     /\ SpansCoverage(lk.refs)
     /\ ~OneRadiusOneFrequency(lk.refs))
    => /\ lk.pc = "done"
       /\ lk.out = "AssertionError"
       /\ lk.queue = <<>>
       /\ lk.next = 0
       /\ lk.inflight = {}
       /\ lk.outputs = <<>>
       /\ lk.tables = NoTables

C30_Witness ==
    /\ lk.entry = "run_lookups"
    /\ lk.file = "neuron_a_f_fs"
    /\ lk.refs.fs.vals = <<0, FsFull>>
    /\ lk.refs.a.vals = <<1, 2>>
    /\ lk.refs.f.vals = <<1>>
    /\ lk.out = "AssertionError"

\* ------------------------------------------------------------- loader claims, continued
\* A file as a build leaves it: every table has the shape of the reference
\* vectors, and the amplitudes passed the validation of the build.
BuiltFile(file) ==
    /\ file.exists
    /\ \A key \in LookupKeys :
           file.lookup[key].shape = <<Len(file.input.a), Len(file.input.f),
                                      Len(file.input.A), Len(file.input.Q)>>
    /\ CheckVector("A", FloatArray(file.input.A)) = "ok"

\* The table of one coefficient projected at amplitude 0.
OffProjection(file, key) == interp1d(file.input.A, file.lookup[key], 2, 0)

\* C29: for every built file, getLookupsOff returns the charge vector and, for
\* every coefficient, a 1-D array over the charges that is the table projected
\* at amplitude A = 0 (for the first radius and the first frequency).
C29_OffLookupsAreZeroAmplitude ==
    (lu.fn = "getLookupsOff" /\ BuiltFile(lu.file))
    => /\ lu.out = "return"
       /\ lu.Qref = lu.file.input.Q
       /\ \A key \in LookupKeys :
           /\ lu.lookups[key].shape = <<Len(lu.Qref)>>
           /\ OffProjection(lu.file, key).out = "return"
           /\ \A q \in 1..Len(lu.Qref) :
                  lu.lookups[key].data[<<q>>]
                      = OffProjection(lu.file, key).y.data[<<1, 1, q>>]

=============================================================================
